---- MODULE Spec2Model ----
(***************************************************************************)
(* Model of the AI_Powered_Banking decision core:                          *)
(*   - Transaction            (app/models/transaction.py)                  *)
(*   - ProactiveDefenseSystem (app/security/proactive_defense_system.py)   *)
(*   - the transfer flows     (cli.py transfer, main.py                    *)
(*                             simulate_transaction)                       *)
(*   - AIEngine               (app/ai/ai_engine.py)                        *)
(*   - AuthenticationSystem   (app/security/authentication_system.py)      *)
(*   - UserDatabase           (app/models/user_database.py)                *)
(* Risk scores are kept in tenths (0.3 is 3), money in whole units.        *)
(***************************************************************************)
EXTENDS Integers, Sequences, FiniteSets, TLC

VARIABLES
    now,              \* datetime.now(), a non-decreasing logical clock
    transaction,      \* one Transaction object: status, risk_score, metadata
    call,             \* the last call made on it: operation, argument, result
    defense_system,   \* one ProactiveDefenseSystem object
    pds_call,         \* the last call made on it: operation, arguments, result
    threads,          \* the threads calling into the shared defense system
    level0,           \* the threat level when the threads were started
    data_file,        \* data/user_data.json: the stored balance of every user
    flows,            \* the running invocations of transfer / simulate_transaction
    ai_call,          \* the last call made on the AIEngine: arguments, result
    auth_system,      \* one AuthenticationSystem object
    auth_call,        \* the last call made on it: operation, arguments, result
    user_db,          \* one UserDatabase object
    db_file,          \* the file that object loads from and saves to
    db_call           \* the last call made on it: operation, arguments, result

\* ------------------------------------------------------------------ bounds
MaxTime == 2
MaxThreats == 2       \* entries kept in active_threats
MaxAlerts == 2        \* entries kept in security_alerts
MaxBalance == 20000   \* no transfer is started that could lift a balance above it
ScoreSteps == 2       \* confidences and risk scores are multiples of 1/ScoreSteps
MaxHistory == 2       \* entries kept in authentication_history
MaxLogins == 2        \* records in the login history a comparison is made with
MaxRecords == 1       \* records kept in historical_logins, all users together

\* --------------------------------------------------------------- Transaction
STATUS_PENDING == "pending"
STATUS_COMPLETED == "completed"
STATUS_FAILED == "failed"
STATUS_BLOCKED == "blocked"
STATUS_UNDER_REVIEW == "under_review"

Statuses ==
    {STATUS_PENDING, STATUS_COMPLETED, STATUS_FAILED, STATUS_BLOCKED,
     STATUS_UNDER_REVIEW}

\* the reasons the callers pass to fail()/block()
Reasons == {"Insufficient balance", "User cancelled high-risk transaction"}

\* the scores passed to flag_for_review(), in tenths
RiskScores == {3, 7, 9}

\* the empty dict {}
EmptyDict == [k \in {} |-> 0]

\* d[k] = v on a dict
Put(d, k, v) == [x \in (DOMAIN d) \cup {k} |-> IF x = k THEN v ELSE d[x]]

\* Transaction.__init__: a fresh transaction is pending, risk 0.0, no metadata
NewTransaction(sender, receiver, amount) ==
    [sender_id |-> sender, receiver_id |-> receiver, amount |-> amount,
     status |-> STATUS_PENDING, risk_score |-> 0, metadata |-> EmptyDict]

\* complete() guarded like fail(): anything not yet completed may complete
complete_GuardNotCompleted(t, ts) ==
    IF t.status # STATUS_COMPLETED
    THEN [t |-> [t EXCEPT !.status = STATUS_COMPLETED,
                          !.metadata = Put(@, "completed_at", ts)],
          ret |-> TRUE]
    ELSE [t |-> t, ret |-> FALSE]

\* complete() that also resolves a transaction under review
complete_ResolvesReview(t, ts) ==
    IF t.status \in {STATUS_PENDING, STATUS_UNDER_REVIEW}
    THEN [t |-> [t EXCEPT !.status = STATUS_COMPLETED,
                          !.metadata = Put(@, "completed_at", ts)],
          ret |-> TRUE]
    ELSE [t |-> t, ret |-> FALSE]

\* Transaction.complete at time ts: the object afterwards and the value returned
complete(t, ts) ==
    IF t.status = STATUS_PENDING
    THEN [t |-> [t EXCEPT !.status = STATUS_COMPLETED,
                          !.metadata = Put(@, "completed_at", ts)],
          ret |-> TRUE]
    ELSE [t |-> t, ret |-> FALSE]

\* fail() guarded like the other transitions: only from pending
fail_OnlyFromPending(t, reason, ts) ==
    IF t.status = STATUS_PENDING
    THEN [t |-> [t EXCEPT !.status = STATUS_FAILED,
                          !.metadata = Put(Put(@, "failed_at", ts),
                                           "failure_reason", reason)],
          ret |-> TRUE]
    ELSE [t |-> t, ret |-> FALSE]

\* fail() that starts the metadata afresh
fail_ResetsMetadata(t, reason, ts) ==
    IF t.status # STATUS_COMPLETED
    THEN [t |-> [t EXCEPT !.status = STATUS_FAILED,
                          !.metadata = Put(Put(EmptyDict, "failed_at", ts),
                                           "failure_reason", reason)],
          ret |-> TRUE]
    ELSE [t |-> t, ret |-> FALSE]

\* Transaction.fail
fail(t, reason, ts) ==
    IF t.status # STATUS_COMPLETED
    THEN [t |-> [t EXCEPT !.status = STATUS_FAILED,
                          !.metadata = Put(Put(@, "failed_at", ts),
                                           "failure_reason", reason)],
          ret |-> TRUE]
    ELSE [t |-> t, ret |-> FALSE]

\* block() with its guard negated on the wrong constant
block_GuardNotBlocked(t, reason, ts) ==
    IF t.status # STATUS_BLOCKED
    THEN [t |-> [t EXCEPT !.status = STATUS_BLOCKED,
                          !.metadata = Put(Put(@, "blocked_at", ts),
                                           "block_reason", reason)],
          ret |-> TRUE]
    ELSE [t |-> t, ret |-> FALSE]

\* Transaction.block
block(t, reason, ts) ==
    IF t.status = STATUS_PENDING
    THEN [t |-> [t EXCEPT !.status = STATUS_BLOCKED,
                          !.metadata = Put(Put(@, "blocked_at", ts),
                                           "block_reason", reason)],
          ret |-> TRUE]
    ELSE [t |-> t, ret |-> FALSE]

\* flag_for_review() that stores the score before testing the status
flag_for_review_ScoreFirst(t, score, ts) ==
    IF t.status = STATUS_PENDING
    THEN [t |-> [t EXCEPT !.status = STATUS_UNDER_REVIEW,
                          !.risk_score = score,
                          !.metadata = Put(Put(@, "flagged_at", ts),
                                           "risk_score", score)],
          ret |-> TRUE]
    ELSE [t |-> [t EXCEPT !.risk_score = score], ret |-> FALSE]

\* Transaction.flag_for_review
flag_for_review(t, score, ts) ==
    IF t.status = STATUS_PENDING
    THEN [t |-> [t EXCEPT !.status = STATUS_UNDER_REVIEW,
                          !.risk_score = score,
                          !.metadata = Put(Put(@, "flagged_at", ts),
                                           "risk_score", score)],
          ret |-> TRUE]
    ELSE [t |-> t, ret |-> FALSE]

\* the clock is read only by a call that succeeds
Tick(r, ts) == now' = IF r.ret THEN ts ELSE now

TxnComplete ==
    \E ts \in now..MaxTime :
        LET r == complete(transaction, ts) IN
        /\ transaction' = r.t
        /\ call' = [op |-> "complete", ret |-> r.ret]
        /\ Tick(r, ts)
        /\ UNCHANGED <<defense_system, pds_call, threads, level0, data_file,
                       flows,
                       ai_call, auth_system, auth_call,
                       user_db, db_file, db_call>>

TxnFail ==
    \E ts \in now..MaxTime, reason \in Reasons :
        LET r == fail(transaction, reason, ts) IN
        /\ transaction' = r.t
        /\ call' = [op |-> "fail", reason |-> reason, ret |-> r.ret]
        /\ Tick(r, ts)
        /\ UNCHANGED <<defense_system, pds_call, threads, level0, data_file,
                       flows,
                       ai_call, auth_system, auth_call,
                       user_db, db_file, db_call>>

TxnBlock ==
    \E ts \in now..MaxTime, reason \in Reasons :
        LET r == block(transaction, reason, ts) IN
        /\ transaction' = r.t
        /\ call' = [op |-> "block", reason |-> reason, ret |-> r.ret]
        /\ Tick(r, ts)
        /\ UNCHANGED <<defense_system, pds_call, threads, level0, data_file,
                       flows,
                       ai_call, auth_system, auth_call,
                       user_db, db_file, db_call>>

TxnFlagForReview ==
    \E ts \in now..MaxTime, score \in RiskScores :
        LET r == flag_for_review(transaction, score, ts) IN
        /\ transaction' = r.t
        /\ call' = [op |-> "flag_for_review", score |-> score, ret |-> r.ret]
        /\ Tick(r, ts)
        /\ UNCHANGED <<defense_system, pds_call, threads, level0, data_file,
                       flows,
                       ai_call, auth_system, auth_call,
                       user_db, db_file, db_call>>


\* ------------------------------------------------------- ProactiveDefenseSystem
THREAT_LEVEL_LOW == 1
THREAT_LEVEL_MEDIUM == 2
THREAT_LEVEL_HIGH == 3
THREAT_LEVEL_CRITICAL == 4

PLAN_LOW == "Standard monitoring"
PLAN_MEDIUM == "Enhanced monitoring, notify security team"
PLAN_HIGH ==
    "Block suspicious activity, require additional authentication, alert security team"
PLAN_CRITICAL ==
    "Lockdown affected systems, block all suspicious IPs, immediate security team response"

\* the inputs of the events
LoginAttempts == {5, 6}
Amounts == {10000, 50000}
IPs == {"203.0.113.42", "192.168.1.1"}

\* two dicts merged, d taking precedence
Merge(d, e) ==
    [k \in (DOMAIN d) \cup (DOMAIN e) |-> IF k \in DOMAIN d THEN d[k] ELSE e[k]]

\* activity_data: any of login_attempts, transaction, ip_address may be absent
\* (every combination of the values over the thresholds with an address,
\* every combination of the values at and over the thresholds without one)
ActivityData ==
    {Merge(Merge(l, t), i) :
        l \in {EmptyDict, [login_attempts |-> 6]},
        t \in {EmptyDict, [transaction |-> [amount |-> 50000]]},
        i \in {EmptyDict} \cup {[ip_address |-> ip] : ip \in IPs}}
    \cup
    {Merge(l, t) :
        l \in {EmptyDict} \cup {[login_attempts |-> n] : n \in LoginAttempts},
        t \in {EmptyDict} \cup {[transaction |-> [amount |-> m]] : m \in Amounts}}

\* access_data of block_access: ip_address may be absent
AccessData ==
    {Merge([reason |-> "High risk login attempt"], i) :
        i \in {EmptyDict} \cup {[ip_address |-> ip] : ip \in IPs}}

\* alert_data of alert_security_team: priority may be absent
AlertData ==
    {Merge([message |-> "Suspicious login attempt"], pr) :
        pr \in {EmptyDict, [priority |-> "urgent"]}}

\* x in list
InList(x, list) == \E i \in 1..Len(list) : list[i] = x

\* ProactiveDefenseSystem.__init__ at time ts
NewDefenseSystem(ts) ==
    [threat_level |-> THREAT_LEVEL_LOW,
     response_plan |-> PLAN_LOW,
     active_threats |-> <<>>,
     blocked_ips |-> <<>>,
     security_alerts |-> <<>>,
     last_scan_time |-> ts]

\* _update_response_plan() that never steps a plan down from lockdown
update_response_plan_KeepsLockdown(level, plan) ==
    IF plan = PLAN_CRITICAL THEN plan
    ELSE IF level = THREAT_LEVEL_LOW THEN PLAN_LOW
    ELSE IF level = THREAT_LEVEL_MEDIUM THEN PLAN_MEDIUM
    ELSE IF level = THREAT_LEVEL_HIGH THEN PLAN_HIGH
    ELSE IF level = THREAT_LEVEL_CRITICAL THEN PLAN_CRITICAL
    ELSE plan

\* _update_response_plan: the plan after the call, given the level read
update_response_plan(level, plan) ==
    IF level = THREAT_LEVEL_LOW THEN PLAN_LOW
    ELSE IF level = THREAT_LEVEL_MEDIUM THEN PLAN_MEDIUM
    ELSE IF level = THREAT_LEVEL_HIGH THEN PLAN_HIGH
    ELSE IF level = THREAT_LEVEL_CRITICAL THEN PLAN_CRITICAL
    ELSE plan

\* detect_threat works on threat_detected, threat_details and self.threat_level;
\* st is the three of them, each rule yields them after its statement

\* the login rule with the threshold one lower
LoginRuleFires_FromFive(a) ==
    "login_attempts" \in DOMAIN a /\ a["login_attempts"] >= 5

\* the conditions of the three rules (lines 58-60, 68-72, 80-82)
LoginRuleFires(a) ==
    "login_attempts" \in DOMAIN a /\ a["login_attempts"] > 5

TransactionRuleFires(a, flagged) ==
    "transaction" \in DOMAIN a /\ a["transaction"].amount > 10000 /\ flagged

IpRuleFires(a, blocked_ips) ==
    "ip_address" \in DOMAIN a /\ InList(a["ip_address"], blocked_ips)

\* lines 57-65: rapid login attempts
CheckLoginAttempts(a, st) ==
    IF LoginRuleFires(a)
    THEN [threat_detected |-> TRUE,
          threat_details |->
              [type |-> "brute_force_attempt", severity |-> "high",
               evidence |-> ToString(a["login_attempts"])
                                \o " login attempts in quick succession"],
          threat_level |-> THREAT_LEVEL_HIGH]
    ELSE st

\* lines 67-77: large transaction; flagged is random.random() < 0.3
CheckTransaction(a, flagged, st) ==
    IF TransactionRuleFires(a, flagged)
    THEN [threat_detected |-> TRUE,
          threat_details |->
              [type |-> "unusual_transaction", severity |-> "medium",
               evidence |-> "Unusually large transaction: $"
                                \o ToString(a["transaction"].amount)],
          threat_level |-> THREAT_LEVEL_MEDIUM]
    ELSE st

\* the blocked-IP rule giving way to a threat found by an earlier rule
CheckIpAddress_KeepsEarlierThreat(a, blocked_ips, st) ==
    IF IpRuleFires(a, blocked_ips) /\ ~st.threat_detected
    THEN [threat_detected |-> TRUE,
          threat_details |->
              [type |-> "blocked_ip_access", severity |-> "critical",
               evidence |-> "Access attempt from blocked IP: " \o a["ip_address"]],
          threat_level |-> THREAT_LEVEL_CRITICAL]
    ELSE st

\* lines 79-87: access from a blocked IP
CheckIpAddress(a, blocked_ips, st) ==
    IF IpRuleFires(a, blocked_ips)
    THEN [threat_detected |-> TRUE,
          threat_details |->
              [type |-> "blocked_ip_access", severity |-> "critical",
               evidence |-> "Access attempt from blocked IP: " \o a["ip_address"]],
          threat_level |-> THREAT_LEVEL_CRITICAL]
    ELSE st

\* detect_threat() whose alert carries the level the call started with
detect_threat_AlertsOldLevel(ds, a, flagged, ts1, ts2) ==
    LET st0 == [threat_detected |-> FALSE, threat_details |-> EmptyDict,
                threat_level |-> ds.threat_level]
        st3 == CheckIpAddress(a, ds.blocked_ips,
                   CheckTransaction(a, flagged, CheckLoginAttempts(a, st0)))
        plan == IF st3.threat_detected
                THEN update_response_plan(st3.threat_level, ds.response_plan)
                ELSE ds.response_plan
    IN  [ds |->
            [ds EXCEPT
                !.threat_level = st3.threat_level,
                !.active_threats =
                    IF st3.threat_detected
                    THEN Append(@, [timestamp |-> ts1,
                                    details |-> st3.threat_details,
                                    activity_data |-> a])
                    ELSE @,
                !.response_plan = plan,
                !.security_alerts =
                    IF st3.threat_detected
                    THEN Append(@, [timestamp |-> ts2,
                                    threat_level |-> ds.threat_level,
                                    details |-> st3.threat_details,
                                    status |-> "new"])
                    ELSE @],
         ret |->
            [threat_detected |-> st3.threat_detected,
             threat_level |-> st3.threat_level,
             threat_details |-> st3.threat_details,
             response_plan |-> plan]]

\* ProactiveDefenseSystem.detect_threat as one call: the object afterwards and
\* the info dict returned; ts1, ts2 are the two clock readings
detect_threat(ds, a, flagged, ts1, ts2) ==
    LET st0 == [threat_detected |-> FALSE, threat_details |-> EmptyDict,
                threat_level |-> ds.threat_level]
        st1 == CheckLoginAttempts(a, st0)
        st2 == CheckTransaction(a, flagged, st1)
        st3 == CheckIpAddress(a, ds.blocked_ips, st2)
        plan == IF st3.threat_detected
                THEN update_response_plan(st3.threat_level, ds.response_plan)
                ELSE ds.response_plan
    IN  [ds |->
            [ds EXCEPT
                !.threat_level = st3.threat_level,
                !.active_threats =
                    IF st3.threat_detected
                    THEN Append(@, [timestamp |-> ts1,
                                    details |-> st3.threat_details,
                                    activity_data |-> a])
                    ELSE @,
                !.response_plan = plan,
                !.security_alerts =
                    IF st3.threat_detected
                    THEN Append(@, [timestamp |-> ts2,
                                    threat_level |-> st3.threat_level,
                                    details |-> st3.threat_details,
                                    status |-> "new"])
                    ELSE @],
         ret |->
            [threat_detected |-> st3.threat_detected,
             threat_level |-> st3.threat_level,
             threat_details |-> st3.threat_details,
             response_plan |-> plan]]

\* block_access() without the membership test
block_access_NoMembershipTest(ds, access_data, ts) ==
    [ds |->
        [ds EXCEPT
            !.blocked_ips =
                IF "ip_address" \in DOMAIN access_data
                THEN Append(@, access_data["ip_address"])
                ELSE @,
            !.security_alerts =
                Append(@, [timestamp |-> ts, action |-> "block_access",
                           details |-> access_data, status |-> "resolved"])],
     ret |-> TRUE]

\* ProactiveDefenseSystem.block_access
block_access(ds, access_data, ts) ==
    [ds |->
        [ds EXCEPT
            !.blocked_ips =
                IF /\ "ip_address" \in DOMAIN access_data
                   /\ ~InList(access_data["ip_address"], @)
                THEN Append(@, access_data["ip_address"])
                ELSE @,
            !.security_alerts =
                Append(@, [timestamp |-> ts, action |-> "block_access",
                           details |-> access_data, status |-> "resolved"])],
     ret |-> TRUE]

\* the priority alert_security_team derives from the threat level
PriorityOf(level) ==
    IF level = THREAT_LEVEL_CRITICAL THEN "critical"
    ELSE IF level = THREAT_LEVEL_HIGH THEN "high"
    ELSE IF level = THREAT_LEVEL_MEDIUM THEN "medium"
    ELSE "low"

\* alert_security_team() that starts the alert log afresh
alert_security_team_ReplacesLog(ds, alert_data, ts) ==
    [ds |-> [ds EXCEPT !.security_alerts =
                <<[timestamp |-> ts, action |-> "security_team_alert",
                   details |-> alert_data, status |-> "pending"]>>],
     ret |-> TRUE]

\* ProactiveDefenseSystem.alert_security_team
alert_security_team(ds, alert_data, ts) ==
    LET d1 == IF "timestamp" \in DOMAIN alert_data THEN alert_data
              ELSE Put(alert_data, "timestamp", ts)
        d2 == IF "priority" \in DOMAIN d1 THEN d1
              ELSE Put(d1, "priority", PriorityOf(ds.threat_level))
    IN  [ds |->
            [ds EXCEPT
                !.security_alerts =
                    Append(@, [timestamp |-> d2["timestamp"],
                               action |-> "security_team_alert",
                               details |-> d2, status |-> "pending"])],
         ret |-> TRUE]

\* run_security_scan() that relaxes to Low after a clean scan
run_security_scan_ClearsWhenClean(ds, vulnerabilities_found, suspicious_patterns, ts) ==
    LET hit == vulnerabilities_found > 2 \/ suspicious_patterns > 1
        clean == vulnerabilities_found = 0 /\ suspicious_patterns = 0
        level == IF hit THEN THREAT_LEVEL_HIGH
                 ELSE IF clean THEN THREAT_LEVEL_LOW ELSE ds.threat_level
        plan == IF hit \/ clean THEN update_response_plan(level, ds.response_plan)
                ELSE ds.response_plan
    IN  [ds |-> [ds EXCEPT !.last_scan_time = ts,
                           !.threat_level = level,
                           !.response_plan = plan],
         ret |-> [scan_time |-> ts,
                  vulnerabilities_found |-> vulnerabilities_found,
                  suspicious_patterns |-> suspicious_patterns,
                  threat_level |-> level,
                  response_plan |-> plan]]

\* ProactiveDefenseSystem.run_security_scan; the two counts are the random
\* draws randint(0, 3) and randint(0, 2)
run_security_scan(ds, vulnerabilities_found, suspicious_patterns, ts) ==
    LET hit == vulnerabilities_found > 2 \/ suspicious_patterns > 1
        level == IF hit THEN THREAT_LEVEL_HIGH ELSE ds.threat_level
        plan == IF hit THEN update_response_plan(level, ds.response_plan)
                ELSE ds.response_plan
    IN  [ds |-> [ds EXCEPT !.last_scan_time = ts,
                           !.threat_level = level,
                           !.response_plan = plan],
         ret |-> [scan_time |-> ts,
                  vulnerabilities_found |-> vulnerabilities_found,
                  suspicious_patterns |-> suspicious_patterns,
                  threat_level |-> level,
                  response_plan |-> plan]]

\* the logs stay within the bounds
LogsFit(ds) ==
    /\ Len(ds.active_threats) <= MaxThreats
    /\ Len(ds.security_alerts) <= MaxAlerts

\* random.random() is drawn only for a transaction over 10000
DrawsRandom(a) == "transaction" \in DOMAIN a /\ a["transaction"].amount > 10000

\* No statement of ProactiveDefenseSystem branches on the clock: its calls
\* stamp the current reading, and the clock is advanced by the Transaction
\* calls only.
DetectThreat ==
    \E a \in ActivityData :
    \E flagged \in IF DrawsRandom(a) THEN BOOLEAN ELSE {FALSE} :
        LET r == detect_threat(defense_system, a, flagged, now, now) IN
        /\ LogsFit(r.ds)
        /\ defense_system' = r.ds
        /\ pds_call' = [op |-> "detect_threat", activity_data |-> a,
                        flagged |-> flagged, ret |-> r.ret]
        /\ UNCHANGED <<now, transaction, call, threads, level0, data_file,
                       flows,
                       ai_call, auth_system, auth_call,
                       user_db, db_file, db_call>>

BlockAccess ==
    \E access_data \in AccessData :
        LET r == block_access(defense_system, access_data, now) IN
        /\ LogsFit(r.ds)
        /\ defense_system' = r.ds
        /\ pds_call' = [op |-> "block_access", access_data |-> access_data,
                        ret |-> r.ret]
        /\ UNCHANGED <<now, transaction, call, threads, level0, data_file,
                       flows,
                       ai_call, auth_system, auth_call,
                       user_db, db_file, db_call>>

AlertSecurityTeam ==
    \E alert_data \in AlertData :
        LET r == alert_security_team(defense_system, alert_data, now) IN
        /\ LogsFit(r.ds)
        /\ defense_system' = r.ds
        /\ pds_call' = [op |-> "alert_security_team", alert_data |-> alert_data,
                        ret |-> r.ret]
        /\ UNCHANGED <<now, transaction, call, threads, level0, data_file,
                       flows,
                       ai_call, auth_system, auth_call,
                       user_db, db_file, db_call>>

RunSecurityScan ==
    \E v \in 0..3, sp \in 0..2 :
        LET r == run_security_scan(defense_system, v, sp, now) IN
        /\ defense_system' = r.ds
        /\ pds_call' = [op |-> "run_security_scan", ret |-> r.ret]
        /\ UNCHANGED <<now, transaction, call, threads, level0, data_file,
                       flows,
                       ai_call, auth_system, auth_call,
                       user_db, db_file, db_call>>


\* ------------------------------------- concurrent calls on one defense system
\* Two threads call detect_threat on the same object.  The object has no lock;
\* a thread may be preempted between any two statements, so every statement
\* that touches self.* is a step of its own.  pc names the source line.
Threads == {1, 2}

\* the events the two threads carry
ConcActivityData ==
    {a \in ActivityData :
        /\ "login_attempts" \in DOMAIN a => a["login_attempts"] = 6
        /\ "transaction" \in DOMAIN a => a["transaction"].amount = 50000
        /\ "ip_address" \in DOMAIN a => a["ip_address"] = "203.0.113.42"}

IdleThread ==
    [op |-> "none", pc |-> "idle", activity_data |-> EmptyDict,
     access_data |-> EmptyDict, threat_detected |-> FALSE, threat_details |-> EmptyDict,
     floors |-> {}, plan |-> "", draws |-> EmptyDict, ret |-> EmptyDict]

\* the shared object when the threads start: freshly built, or after earlier
\* block_access / detect_threat calls
PreparedSystems ==
    LET fresh == NewDefenseSystem(1)
        blocked == block_access(fresh, [ip_address |-> "203.0.113.42",
                                        reason |-> "High risk login attempt"],
                                1).ds
        critical == detect_threat(blocked, [ip_address |-> "203.0.113.42"],
                                  FALSE, 1, 1).ds
    IN  {fresh, blocked, critical}

\* what a thread holds in threat_detected, threat_details, with the level it
\* finds in the object
Frame(self) ==
    [threat_detected |-> threads[self].threat_detected,
     threat_details |-> threads[self].threat_details,
     threat_level |-> defense_system.threat_level]

\* one rule statement of thread self: st is the frame after it, floor the
\* floor the rule raises, fired whether it did
RuleStep(self, st, fired, floor, next) ==
    /\ defense_system' = [defense_system EXCEPT !.threat_level = st.threat_level]
    /\ threads' = [threads EXCEPT ![self] =
          [@ EXCEPT !.pc = next,
                    !.threat_detected = st.threat_detected,
                    !.threat_details = st.threat_details,
                    !.floors = IF fired THEN @ \cup {floor} ELSE @]]
    /\ UNCHANGED <<now, transaction, call, pds_call, level0, data_file, flows,
                   ai_call, auth_system, auth_call, user_db, db_file, db_call>>

\* both threads enter detect_threat (line 54)
Spawn ==
    /\ \A t \in Threads : threads[t].pc = "idle"
    /\ \E a1 \in ConcActivityData, a2 \in ConcActivityData :
          threads' = [t \in Threads |->
              [IdleThread EXCEPT !.op = "detect_threat", !.pc = "l58",
                                 !.activity_data = IF t = 1 THEN a1 ELSE a2]]
    /\ level0' = defense_system.threat_level
    /\ UNCHANGED <<now, transaction, call, defense_system, pds_call, data_file,
                   flows,
                   ai_call, auth_system, auth_call, user_db, db_file, db_call>>

\* lines 58-65
T_l58(self) ==
    /\ threads[self].pc = "l58"
    /\ LET a == threads[self].activity_data IN
       RuleStep(self, CheckLoginAttempts(a, Frame(self)),
                LoginRuleFires(a), THREAT_LEVEL_HIGH, "l68")

\* lines 68-77
T_l68(self) ==
    /\ threads[self].pc = "l68"
    /\ LET a == threads[self].activity_data IN
       \E flagged \in IF DrawsRandom(a) THEN BOOLEAN ELSE {FALSE} :
           RuleStep(self, CheckTransaction(a, flagged, Frame(self)),
                    TransactionRuleFires(a, flagged), THREAT_LEVEL_MEDIUM, "l80")

\* lines 80-87
T_l80(self) ==
    /\ threads[self].pc = "l80"
    /\ LET a == threads[self].activity_data IN
       RuleStep(self, CheckIpAddress(a, defense_system.blocked_ips, Frame(self)),
                IpRuleFires(a, defense_system.blocked_ips),
                THREAT_LEVEL_CRITICAL, "l90")

\* lines 90-95: record the threat, or go straight to the return
T_l90(self) ==
    /\ threads[self].pc = "l90"
    /\ IF threads[self].threat_detected
       THEN /\ defense_system' =
                  [defense_system EXCEPT !.active_threats =
                      Append(@, [timestamp |-> now,
                                 details |-> threads[self].threat_details,
                                 activity_data |-> threads[self].activity_data])]
            /\ threads' = [threads EXCEPT ![self].pc = "l117"]
       ELSE /\ threads' = [threads EXCEPT ![self].pc = "l108"]
            /\ UNCHANGED defense_system
    /\ UNCHANGED <<now, transaction, call, pds_call, level0, data_file, flows,
                   ai_call, auth_system, auth_call, user_db, db_file, db_call>>

\* where _update_response_plan returns to: line 101 of detect_threat, line
\* 227 of run_security_scan
AfterPlan(self) ==
    IF threads[self].op = "run_security_scan" THEN "l227" ELSE "l101"

\* _update_response_plan, lines 117-124: one comparison of self.threat_level
\* per step; the plan chosen is written in a step of its own
PlanTest(self, level, plan, else_pc) ==
    /\ threads' = [threads EXCEPT ![self] =
          IF defense_system.threat_level = level
          THEN [@ EXCEPT !.pc = "plan_write", !.plan = plan]
          ELSE [@ EXCEPT !.pc = else_pc]]
    /\ UNCHANGED <<now, transaction, call, defense_system, pds_call, level0,
                   data_file, flows,
                   ai_call, auth_system, auth_call, user_db, db_file, db_call>>

T_l117(self) ==
    /\ threads[self].pc = "l117"
    /\ PlanTest(self, THREAT_LEVEL_LOW, PLAN_LOW, "l119")

T_l119(self) ==
    /\ threads[self].pc = "l119"
    /\ PlanTest(self, THREAT_LEVEL_MEDIUM, PLAN_MEDIUM, "l121")

T_l121(self) ==
    /\ threads[self].pc = "l121"
    /\ PlanTest(self, THREAT_LEVEL_HIGH, PLAN_HIGH, "l123")

T_l123(self) ==
    /\ threads[self].pc = "l123"
    /\ PlanTest(self, THREAT_LEVEL_CRITICAL, PLAN_CRITICAL, AfterPlan(self))

\* lines 118, 120, 122, 124: self.response_plan = ...
T_plan_write(self) ==
    /\ threads[self].pc = "plan_write"
    /\ defense_system' =
          [defense_system EXCEPT !.response_plan = threads[self].plan]
    /\ threads' = [threads EXCEPT ![self].pc = AfterPlan(self)]
    /\ UNCHANGED <<now, transaction, call, pds_call, level0, data_file, flows,
                   ai_call, auth_system, auth_call, user_db, db_file, db_call>>

\* lines 101-106: the alert carries the level found in the object now
T_l101(self) ==
    /\ threads[self].pc = "l101"
    /\ defense_system' =
          [defense_system EXCEPT !.security_alerts =
              Append(@, [timestamp |-> now,
                         threat_level |-> defense_system.threat_level,
                         details |-> threads[self].threat_details,
                         status |-> "new"])]
    /\ threads' = [threads EXCEPT ![self].pc = "l108"]
    /\ UNCHANGED <<now, transaction, call, pds_call, level0, data_file, flows,
                   ai_call, auth_system, auth_call, user_db, db_file, db_call>>

\* lines 108-113: return
T_l108(self) ==
    /\ threads[self].pc = "l108"
    /\ threads' = [threads EXCEPT ![self] =
          [@ EXCEPT !.pc = "done",
                    !.ret = [threat_detected |-> threads[self].threat_detected,
                             threat_level |-> defense_system.threat_level,
                             threat_details |-> threads[self].threat_details,
                             response_plan |-> defense_system.response_plan]]]
    /\ UNCHANGED <<now, transaction, call, defense_system, pds_call, level0,
                   data_file, flows,
                   ai_call, auth_system, auth_call, user_db, db_file, db_call>>

AllDone == \A t \in Threads : threads[t].pc = "done"

\* Thread 1 calls detect_threat and thread 2 run_security_scan on the same
\* object, with no lock.

\* thread 1 enters detect_threat (line 54), thread 2 run_security_scan
\* (line 209)
SpawnScan ==
    /\ \A t \in Threads : threads[t].pc = "idle"
    /\ \E a \in ConcActivityData :
          threads' = [t \in Threads |->
              IF t = 1
              THEN [IdleThread EXCEPT !.op = "detect_threat", !.pc = "l58",
                                      !.activity_data = a]
              ELSE [IdleThread EXCEPT !.op = "run_security_scan",
                                      !.pc = "l210"]]
    /\ level0' = defense_system.threat_level
    /\ UNCHANGED <<now, transaction, call, defense_system, pds_call, data_file,
                   flows,
                   ai_call, auth_system, auth_call, user_db, db_file, db_call>>

\* line 210: self.last_scan_time = datetime.now()
S_l210(self) ==
    /\ threads[self].pc = "l210"
    /\ defense_system' = [defense_system EXCEPT !.last_scan_time = now]
    /\ threads' = [threads EXCEPT ![self].pc = "l219"]
    /\ UNCHANGED <<now, transaction, call, pds_call, level0, data_file, flows,
                   ai_call, auth_system, auth_call, user_db, db_file, db_call>>

\* lines 219-223: the two random draws and the test on them
S_l219(self) ==
    /\ threads[self].pc = "l219"
    /\ \E v \in 0..3, sp \in 0..2 :
          threads' = [threads EXCEPT ![self] =
              [@ EXCEPT !.draws = [vulnerabilities_found |-> v,
                                   suspicious_patterns |-> sp],
                        !.pc = IF v > 2 \/ sp > 1 THEN "l224" ELSE "l227"]]
    /\ UNCHANGED <<now, transaction, call, defense_system, pds_call, level0,
                   data_file, flows,
                   ai_call, auth_system, auth_call, user_db, db_file, db_call>>

\* line 224: self.threat_level = self.THREAT_LEVEL_HIGH, then the call of
\* _update_response_plan
S_l224(self) ==
    /\ threads[self].pc = "l224"
    /\ defense_system' =
          [defense_system EXCEPT !.threat_level = THREAT_LEVEL_HIGH]
    /\ threads' = [threads EXCEPT ![self] =
          [@ EXCEPT !.pc = "l117", !.floors = @ \cup {THREAT_LEVEL_HIGH}]]
    /\ UNCHANGED <<now, transaction, call, pds_call, level0, data_file, flows,
                   ai_call, auth_system, auth_call, user_db, db_file, db_call>>

\* lines 227-233: return
S_l227(self) ==
    /\ threads[self].pc = "l227"
    /\ threads' = [threads EXCEPT ![self] =
          [@ EXCEPT !.pc = "done",
                    !.ret = Merge(threads[self].draws,
                                  [scan_time |-> defense_system.last_scan_time,
                                   threat_level |-> defense_system.threat_level,
                                   response_plan |->
                                       defense_system.response_plan])]]
    /\ UNCHANGED <<now, transaction, call, defense_system, pds_call, level0,
                   data_file, flows,
                   ai_call, auth_system, auth_call, user_db, db_file, db_call>>

\* Two threads call block_access on the same object.  The membership test of
\* line 139 and the append of line 140 are two statements with no lock around
\* them.

\* both threads enter block_access (line 136)
SpawnBlock ==
    /\ \A t \in Threads : threads[t].pc = "idle"
    /\ \E d1 \in AccessData, d2 \in AccessData :
          threads' = [t \in Threads |->
              [IdleThread EXCEPT !.op = "block_access", !.pc = "l139",
                                 !.access_data = IF t = 1 THEN d1 ELSE d2]]
    /\ level0' = defense_system.threat_level
    /\ UNCHANGED <<now, transaction, call, defense_system, pds_call, data_file,
                   flows,
                   ai_call, auth_system, auth_call, user_db, db_file, db_call>>

\* line 139: the test of the if statement
B_l139(self) ==
    /\ threads[self].pc = "l139"
    /\ LET d == threads[self].access_data IN
       threads' = [threads EXCEPT ![self].pc =
          IF /\ "ip_address" \in DOMAIN d
             /\ ~InList(d["ip_address"], defense_system.blocked_ips)
          THEN "l140" ELSE "l150"]
    /\ UNCHANGED <<now, transaction, call, defense_system, pds_call, level0,
                   data_file, flows,
                   ai_call, auth_system, auth_call, user_db, db_file, db_call>>

\* line 140: self.blocked_ips.append(...)
B_l140(self) ==
    /\ threads[self].pc = "l140"
    /\ defense_system' =
          [defense_system EXCEPT !.blocked_ips =
              Append(@, threads[self].access_data["ip_address"])]
    /\ threads' = [threads EXCEPT ![self].pc = "l150"]
    /\ UNCHANGED <<now, transaction, call, pds_call, level0, data_file, flows,
                   ai_call, auth_system, auth_call, user_db, db_file, db_call>>

\* lines 150-157: record the blocking action and return True
B_l150(self) ==
    /\ threads[self].pc = "l150"
    /\ defense_system' =
          [defense_system EXCEPT !.security_alerts =
              Append(@, [timestamp |-> now, action |-> "block_access",
                         details |-> threads[self].access_data,
                         status |-> "resolved"])]
    /\ threads' = [threads EXCEPT ![self] =
          [@ EXCEPT !.pc = "done", !.ret = [result |-> TRUE]]]
    /\ UNCHANGED <<now, transaction, call, pds_call, level0, data_file, flows,
                   ai_call, auth_system, auth_call, user_db, db_file, db_call>>


\* ------------------------------------------------------------ transfer flows
\* the users of the demo data file (main.py setup_demo_data) and their balances
DemoBalances == (1001 :> 5000) @@ (1002 :> 7500)

\* ids given on the command line; 1003 is not in the store
UserIds == {1001, 1002, 1003}

\* amounts given on the command line
TransferAmounts == {5000, 12000}

\* the hours datetime.now().hour is sampled at
Hours == {3, 12}

SUSPICIOUS_TRANSACTION_THRESHOLD == 5000

NoTransaction == [status |-> "none", amount |-> 0, risk_score |-> 0,
                  metadata |-> EmptyDict]

IdleFlow ==
    [kind |-> "none", pc |-> "idle", users |-> EmptyDict,
     sender_id |-> 0, receiver_id |-> 0,
     sender_balance |-> 0, receiver_balance |-> 0,
     transaction |-> NoTransaction, risk_score |-> 0,
     threat_detected |-> FALSE, alerted |-> FALSE,
     result |-> "none", file0 |-> EmptyDict, writes |-> 0,
     concurrent |-> FALSE,
     defense_system0 |-> EmptyDict, defense_system |-> EmptyDict]

\* UserDatabase.get_user_detail on the instance's users: None for an unknown id
UserFound(users, user_id) == user_id \in DOMAIN users

\* UserDatabase.update_user(user_id, {"balance": balance}): the instance's
\* users afterwards and the value returned; _save_data then writes all of
\* them to the data file
update_user(users, user_id, balance) ==
    IF user_id \notin DOMAIN users
    THEN [users |-> users, ret |-> FALSE, saved |-> FALSE]
    ELSE [users |-> [users EXCEPT ![user_id] = balance], ret |-> TRUE,
          saved |-> TRUE]

\* the sufficient-balance check that went on after failing the transaction
check_balance_NoReturn(t, balance, ts) ==
    IF t.amount > balance
    THEN [t |-> fail(t, "Insufficient balance", ts).t, pc |-> "l174",
          result |-> "none"]
    ELSE [t |-> t, pc |-> "l174", result |-> "none"]

\* cli.py lines 165-169, main.py lines 288-292: the sufficient-balance check
check_balance(t, balance, ts) ==
    IF t.amount > balance
    THEN [t |-> fail(t, "Insufficient balance", ts).t, pc |-> "done",
          result |-> "False"]
    ELSE [t |-> t, pc |-> "l174", result |-> "none"]

\* the detect_threat call both flows make on ds, the ProactiveDefenseSystem
\* they built for themselves (cli.py 184-190; main.py 323-329)
FlowDetect(ds, t, flagged, ts) ==
    detect_threat(ds, [transaction |-> [amount |-> t.amount]], flagged, ts, ts)

FlowFree(f) == flows[f].pc \in {"idle", "done"}

\* cli.py transfer, lines 137-169: build the components (UserDatabase loads
\* the data file), look both users up, create the transaction, check the
\* balance; concurrent notes whether another invocation was under way when
\* this one began
TransferStart(f, sender_id, receiver_id, amount) ==
    /\ FlowFree(f)
    /\ receiver_id \in DOMAIN data_file
          => data_file[receiver_id] + amount <= MaxBalance
    /\ LET users == data_file
           base == [IdleFlow EXCEPT !.kind = "transfer", !.users = users,
                                    !.sender_id = sender_id,
                                    !.receiver_id = receiver_id,
                                    !.file0 = data_file,
                                    !.concurrent =
                                        \E g \in DOMAIN flows :
                                            g # f /\ ~FlowFree(g),
                                    !.defense_system0 = NewDefenseSystem(now),
                                    !.defense_system = NewDefenseSystem(now)]
       IN  IF ~UserFound(users, sender_id) \/ ~UserFound(users, receiver_id)
           THEN /\ flows' = [flows EXCEPT ![f] =
                       [base EXCEPT !.pc = "done", !.result = "False"]]
                /\ UNCHANGED now
           ELSE LET t == NewTransaction(sender_id, receiver_id, amount)
                    c == check_balance(t, users[sender_id], now)
                IN  /\ flows' = [flows EXCEPT ![f] =
                           [base EXCEPT !.pc = c.pc, !.result = c.result,
                                        !.transaction = c.t,
                                        !.sender_balance = users[sender_id],
                                        !.receiver_balance = users[receiver_id]]]
                    /\ UNCHANGED now
    /\ UNCHANGED <<transaction, call, defense_system, pds_call, threads,
                   level0, data_file,
                   ai_call, auth_system, auth_call, user_db, db_file, db_call>>

\* cli.py lines 174-207 up to the prompt: score the risk, detect a threat
TransferAssess(f) ==
    /\ flows[f].kind = "transfer" /\ flows[f].pc = "l174"
    /\ LET t == flows[f].transaction
           risk_score == IF t.amount > 5000 THEN 3 ELSE 0
       IN  \E flagged \in IF t.amount > 10000 THEN BOOLEAN ELSE {FALSE} :
             LET d == FlowDetect(flows[f].defense_system, t, flagged, now) IN
             flows' = [flows EXCEPT ![f] =
                 [@ EXCEPT !.risk_score = risk_score,
                           !.threat_detected = d.ret.threat_detected,
                           !.defense_system = d.ds,
                           !.pc = IF risk_score > 7 \/ d.ret.threat_detected
                                  THEN "l201" ELSE "l210"]]
    /\ UNCHANGED <<now, transaction, call, defense_system, pds_call, threads,
                   level0, data_file,
                   ai_call, auth_system, auth_call, user_db, db_file, db_call>>

\* cli.py lines 201-207: the user answers the high-risk prompt
TransferConfirm(f) ==
    /\ flows[f].kind = "transfer" /\ flows[f].pc = "l201"
    /\ \E confirmation \in {"y", "n"} :
          IF confirmation # "y"
          THEN flows' = [flows EXCEPT ![f] =
                   [@ EXCEPT !.transaction =
                                 fail(@, "User cancelled high-risk transaction",
                                      now).t,
                             !.pc = "done", !.result = "False"]]
          ELSE flows' = [flows EXCEPT ![f].pc = "l210"]
    /\ UNCHANGED <<now, transaction, call, defense_system, pds_call, threads,
                   level0, data_file,
                   ai_call, auth_system, auth_call, user_db, db_file, db_call>>

\* cli.py lines 210-216: complete() (its result is not looked at), then the
\* new balances are computed from the two copies read at the start
TransferComplete(f) ==
    /\ flows[f].kind = "transfer" /\ flows[f].pc = "l210"
    /\ flows' = [flows EXCEPT ![f] =
          [@ EXCEPT !.transaction = complete(@, now).t,
                    !.sender_balance = @ - flows[f].transaction.amount,
                    !.receiver_balance = @ + flows[f].transaction.amount,
                    !.pc = "l218"]]
    /\ UNCHANGED <<now, transaction, call, defense_system, pds_call, threads,
                   level0, data_file,
                   ai_call, auth_system, auth_call, user_db, db_file, db_call>>

\* one update_user call of flow f and the save that ends it
FlowUpdateUser(f, user_id, balance, next_pc, result) ==
    LET u == update_user(flows[f].users, user_id, balance) IN
    /\ flows' = [flows EXCEPT ![f] =
          [@ EXCEPT !.users = u.users, !.pc = next_pc, !.result = result,
                    !.writes = IF u.saved THEN 1 ELSE @]]
    /\ data_file' = IF u.saved THEN u.users ELSE data_file

\* cli.py line 218
TransferUpdateSender(f) ==
    /\ flows[f].kind = "transfer" /\ flows[f].pc = "l218"
    /\ FlowUpdateUser(f, flows[f].sender_id, flows[f].sender_balance,
                      "l219", "none")
    /\ UNCHANGED <<now, transaction, call, defense_system, pds_call, threads,
                   level0,
                   ai_call, auth_system, auth_call, user_db, db_file, db_call>>

\* cli.py lines 219-223
TransferUpdateReceiver(f) ==
    /\ flows[f].kind = "transfer" /\ flows[f].pc = "l219"
    /\ FlowUpdateUser(f, flows[f].receiver_id, flows[f].receiver_balance,
                      "done", "True")
    /\ UNCHANGED <<now, transaction, call, defense_system, pds_call, threads,
                   level0,
                   ai_call, auth_system, auth_call, user_db, db_file, db_call>>

\* main.py simulate_transaction, the whole function: it reads the data file
\* and writes nothing back
SimulateTransaction(f, sender_id, receiver_id, amount, is_legitimate) ==
    /\ FlowFree(f)
    /\ LET users == data_file
           base == [IdleFlow EXCEPT !.kind = "simulate_transaction",
                                    !.users = users, !.pc = "done",
                                    !.sender_id = sender_id,
                                    !.receiver_id = receiver_id,
                                    !.file0 = data_file,
                                    !.defense_system0 = NewDefenseSystem(now),
                                    !.defense_system = NewDefenseSystem(now)]
       IN  IF ~UserFound(users, sender_id) \/ ~UserFound(users, receiver_id)
           THEN flows' = [flows EXCEPT ![f] = base]
           ELSE
             LET t0 == NewTransaction(sender_id, receiver_id, amount)
                 t == IF is_legitimate THEN t0 ELSE [t0 EXCEPT !.amount = 50000]
                 c == check_balance(t, users[sender_id], now)
             IN  IF c.pc = "done"
                 THEN flows' = [flows EXCEPT ![f] =
                          [base EXCEPT !.transaction = c.t]]
                 ELSE
                   \E current_hour \in Hours :
                   \E flagged \in IF t.amount > 10000 THEN BOOLEAN ELSE {FALSE} :
                     LET r1 == IF t.amount > SUSPICIOUS_TRANSACTION_THRESHOLD
                               THEN 3 ELSE 0
                         r2 == IF ~is_legitimate THEN r1 + 2 ELSE r1
                         risk_score == IF 1 <= current_hour /\ current_hour <= 4
                                       THEN r2 + 2 ELSE r2
                         d == FlowDetect(base.defense_system, t, flagged, now)
                         gated == risk_score > 7 \/ d.ret.threat_detected
                         t1 == IF gated THEN flag_for_review(t, risk_score, now).t
                               ELSE complete(t, now).t
                         ds1 == IF gated /\ risk_score > 8
                                THEN alert_security_team(d.ds,
                                         [message |->
                                              "High-risk transaction detected",
                                          risk_score |-> risk_score], now).ds
                                ELSE d.ds
                     IN  flows' = [flows EXCEPT ![f] =
                             [base EXCEPT !.transaction = t1,
                                          !.defense_system = ds1,
                                          !.risk_score = risk_score,
                                          !.threat_detected =
                                              d.ret.threat_detected,
                                          !.alerted = gated /\ risk_score > 8,
                                          !.sender_balance = users[sender_id],
                                          !.receiver_balance =
                                              users[receiver_id]]]
    /\ UNCHANGED <<now, transaction, call, defense_system, pds_call, threads,
                   level0, data_file,
                   ai_call, auth_system, auth_call, user_db, db_file, db_call>>

\* ------------------------------------------------------------------ AIEngine
\* A score (confidence or risk score) k stands for k/ScoreSteps, a weight w
\* for w/100; a risk level is a fraction num/den of integers, so the
\* arithmetic of predict_risk_level is exact.

\* the weights dict of predict_risk_level, in hundredths
WEIGHTS == [face |-> 35, typing |-> 25, location |-> 20, device |-> 20]

\* the value returned when no weighted factor is present: 0.9
HIGH_RISK == [num |-> 9, den |-> 10]

\* factor names a caller may use; "voice" is one predict_risk_level does not
\* know
FactorNames == {"face", "typing", "location", "device", "voice"}

Scores == 0..ScoreSteps

\* verification_results: factor -> (result, score), any factor may be absent
VerificationResults ==
    UNION {[S -> BOOLEAN \X Scores] : S \in SUBSET FactorNames}

\* lines 176-185: the loop over verification_results.items(); todo are the
\* factors not visited yet
RECURSIVE Accumulate(_, _, _)
Accumulate(verification_results, todo, acc) ==
    IF todo = {} THEN acc
    ELSE LET factor == CHOOSE f \in todo : TRUE
             score == verification_results[factor][2]
             risk == IF factor \in {"face", "typing"}
                     THEN ScoreSteps - score ELSE score
             next == IF factor \in DOMAIN WEIGHTS
                     THEN [total_risk |->
                               acc.total_risk + risk * WEIGHTS[factor],
                           total_weight |->
                               acc.total_weight + WEIGHTS[factor]]
                     ELSE acc
         IN  Accumulate(verification_results, todo \ {factor}, next)

\* predict_risk_level() returning 0.0 when it has no results
predict_risk_level_ZeroWhenEmpty(verification_results) ==
    LET acc == Accumulate(verification_results, DOMAIN verification_results,
                          [total_risk |-> 0, total_weight |-> 0])
    IN  IF acc.total_weight = 0 THEN [num |-> 0, den |-> 10]
        ELSE [num |-> acc.total_risk, den |-> acc.total_weight * ScoreSteps]

\* predict_risk_level() dividing by the sum of all four weights
predict_risk_level_FullWeight(verification_results) ==
    LET acc == Accumulate(verification_results, DOMAIN verification_results,
                          [total_risk |-> 0, total_weight |-> 0])
    IN  IF acc.total_weight = 0 THEN HIGH_RISK
        ELSE [num |-> acc.total_risk, den |-> 100 * ScoreSteps]

\* predict_risk_level() that returns high risk when a check did not pass
predict_risk_level_FailedCheckIsHighRisk(verification_results) ==
    LET acc == Accumulate(verification_results, DOMAIN verification_results,
                          [total_risk |-> 0, total_weight |-> 0])
    IN  IF \/ acc.total_weight = 0
           \/ \E f \in DOMAIN verification_results :
                 ~verification_results[f][1]
        THEN HIGH_RISK
        ELSE [num |-> acc.total_risk, den |-> acc.total_weight * ScoreSteps]

\* AIEngine.predict_risk_level: total_risk / total_weight as a fraction
predict_risk_level(verification_results) ==
    LET acc == Accumulate(verification_results, DOMAIN verification_results,
                          [total_risk |-> 0, total_weight |-> 0])
    IN  IF acc.total_weight = 0 THEN HIGH_RISK
        ELSE [num |-> acc.total_risk, den |-> acc.total_weight * ScoreSteps]

\* the call waiting in ai_call is made
PredictRiskLevel ==
    /\ ai_call.op = "pending"
    /\ LET verification_results == ai_call.verification_results IN
        /\ ai_call' = [op |-> "predict_risk_level",
                       verification_results |-> verification_results,
                       ret |-> predict_risk_level(verification_results)]
        /\ UNCHANGED <<now, transaction, call, defense_system, pds_call, threads,
                       level0, data_file, flows, auth_system, auth_call,
                       user_db, db_file, db_call>>

\* -------------------------------------------------------- AuthenticationSystem
\* Risk levels are in tenths.

\* the hours datetime.now().hour shows when an instance is built
LoginHours == {1, 2, 3, 5, 6, 12}

\* user_data of authenticate / evaluate_risk: face_data and typing_pattern
\* may be absent or empty, device_info and location may be absent
UserData ==
    {Merge(Merge(fd, tp), meta) :
        fd \in {EmptyDict, [face_data |-> ""],
                [face_data |-> "base64_encoded_face_image"]},
        tp \in {EmptyDict, [typing_pattern |-> ""],
                [typing_pattern |-> "keystroke_timing_data"]},
        meta \in {EmptyDict,
                  [device_info |-> "Unknown Device",
                   location |-> "1.2921,36.8219"]}}

\* AuthenticationSystem.__init__ at time ts, the clock showing hour
NewAuthenticationSystem(ts, hour) ==
    [login_time |-> [at |-> ts, hour |-> hour],
     login_device |-> "", login_location |-> "",
     risk_factors |-> <<>>, authentication_history |-> <<>>]

\* datetime.isoformat(): the date-time as text
isoformat(dt) == ToString(dt.at) \o "T" \o ToString(dt.hour)

\* dict.get(key, default)
Get(d, key, default) == IF key \in DOMAIN d THEN d[key] ELSE default

\* "key not in user_data or not user_data[key]"
Missing(user_data, key) == key \notin DOMAIN user_data \/ user_data[key] = ""

\* one penalty of evaluate_risk: st is risk_factors and risk_level so far
Penalty(st, applies, factor, amount) ==
    IF applies
    THEN [risk_factors |-> Append(st.risk_factors, factor),
          risk_level |-> st.risk_level + amount]
    ELSE st

Min(a, b) == IF a <= b THEN a ELSE b

\* evaluate_risk() that also charges for a denied attempt in the history
evaluate_risk_CountsFailures(auth, user_data) ==
    LET hour == auth.login_time.hour
        h == auth.authentication_history
        s0 == [risk_factors |-> <<>>, risk_level |-> 0]
        s1 == Penalty(s0, Missing(user_data, "face_data"),
                      "Missing facial biometric data", 3)
        s2 == Penalty(s1, Missing(user_data, "typing_pattern"),
                      "Missing typing pattern data", 2)
        s3 == Penalty(s2, 2 <= hour /\ hour <= 5, "Unusual login time", 2)
        s4 == Penalty(s3, \E i \in DOMAIN h : ~h[i].success,
                      "Previous denied attempt", 2)
    IN  [auth |-> [auth EXCEPT !.risk_factors = s4.risk_factors],
         ret |-> Min(s4.risk_level, 10)]

\* evaluate_risk() that takes an empty sample for a sample
evaluate_risk_AcceptsEmpty(auth, user_data) ==
    LET hour == auth.login_time.hour
        s0 == [risk_factors |-> <<>>, risk_level |-> 0]
        s1 == Penalty(s0, "face_data" \notin DOMAIN user_data,
                      "Missing facial biometric data", 3)
        s2 == Penalty(s1, "typing_pattern" \notin DOMAIN user_data,
                      "Missing typing pattern data", 2)
        s3 == Penalty(s2, 2 <= hour /\ hour <= 5, "Unusual login time", 2)
    IN  [auth |-> [auth EXCEPT !.risk_factors = s3.risk_factors],
         ret |-> Min(s3.risk_level, 10)]

\* AuthenticationSystem.evaluate_risk
evaluate_risk(auth, user_data) ==
    LET hour == auth.login_time.hour
        s0 == [risk_factors |-> <<>>, risk_level |-> 0]
        s1 == Penalty(s0, Missing(user_data, "face_data"),
                      "Missing facial biometric data", 3)
        s2 == Penalty(s1, Missing(user_data, "typing_pattern"),
                      "Missing typing pattern data", 2)
        s3 == Penalty(s2, 2 <= hour /\ hour <= 5, "Unusual login time", 2)
    IN  [auth |-> [auth EXCEPT !.risk_factors = s3.risk_factors],
         ret |-> Min(s3.risk_level, 10)]

\* authenticate() that logs the device and location of the attempt before
authenticate_LogsStaleDevice(auth, user_data) ==
    LET a1 == [auth EXCEPT
                  !.login_device = Get(user_data, "device_info", "Unknown device"),
                  !.login_location = Get(user_data, "location", "Unknown location")]
        e == evaluate_risk(a1, user_data)
        risk_level == e.ret
    IN  [auth |->
            [e.auth EXCEPT
                !.authentication_history =
                    Append(@, [timestamp |-> a1.login_time,
                               device |-> auth.login_device,
                               location |-> auth.login_location,
                               risk_level |-> risk_level,
                               success |-> risk_level < 7])],
         ret |->
            [result |-> risk_level < 7,
             info |-> [risk_level |-> risk_level,
                       risk_factors |-> e.auth.risk_factors,
                       timestamp |-> isoformat(a1.login_time),
                       additional_verification_required |->
                           3 <= risk_level /\ risk_level < 7]]]

\* authenticate() that stamps the attempt with the time of the call
authenticate_StampsCallTime(auth, user_data) ==
    LET a1 == [auth EXCEPT
                  !.login_device = Get(user_data, "device_info", "Unknown device"),
                  !.login_location = Get(user_data, "location", "Unknown location")]
        e == evaluate_risk(a1, user_data)
        call_time == [at |-> now, hour |-> a1.login_time.hour]
    IN  [auth |->
            [e.auth EXCEPT
                !.authentication_history =
                    Append(@, [timestamp |-> call_time,
                               device |-> a1.login_device,
                               location |-> a1.login_location,
                               risk_level |-> e.ret,
                               success |-> e.ret < 7])],
         ret |->
            [result |-> e.ret < 7,
             info |-> [risk_level |-> e.ret,
                       risk_factors |-> e.auth.risk_factors,
                       timestamp |-> isoformat(call_time),
                       additional_verification_required |->
                           3 <= e.ret /\ e.ret < 7]]]

\* AuthenticationSystem.authenticate
authenticate(auth, user_data) ==
    LET a1 == [auth EXCEPT
                  !.login_device = Get(user_data, "device_info", "Unknown device"),
                  !.login_location = Get(user_data, "location", "Unknown location")]
        e == evaluate_risk(a1, user_data)
        risk_level == e.ret
    IN  [auth |->
            [e.auth EXCEPT
                !.authentication_history =
                    Append(@, [timestamp |-> a1.login_time,
                               device |-> a1.login_device,
                               location |-> a1.login_location,
                               risk_level |-> risk_level,
                               success |-> risk_level < 7])],
         ret |->
            [result |-> risk_level < 7,
             info |-> [risk_level |-> risk_level,
                       risk_factors |-> e.auth.risk_factors,
                       timestamp |-> isoformat(a1.login_time),
                       additional_verification_required |->
                           3 <= risk_level /\ risk_level < 7]]]

EvaluateRisk ==
    \E user_data \in UserData :
        LET r == evaluate_risk(auth_system, user_data) IN
        /\ auth_system' = r.auth
        /\ auth_call' = [op |-> "evaluate_risk", user_data |-> user_data,
                         at |-> now, ret |-> r.ret]
        /\ UNCHANGED <<now, transaction, call, defense_system, pds_call, threads,
                       level0, data_file, flows, ai_call,
                       user_db, db_file, db_call>>

Authenticate ==
    \E user_data \in UserData :
        LET r == authenticate(auth_system, user_data) IN
        /\ Len(r.auth.authentication_history) <= MaxHistory
        /\ auth_system' = r.auth
        /\ auth_call' = [op |-> "authenticate", user_data |-> user_data,
                         at |-> now, ret |-> r.ret]
        /\ UNCHANGED <<now, transaction, call, defense_system, pds_call, threads,
                       level0, data_file, flows, ai_call,
                       user_db, db_file, db_call>>

\* ---------------------------------------------------------------- UserDatabase
\* device strings; the first is part of the second
Devices == {"Chrome 98", "Windows 11, Chrome 98"}

\* Python's "part in whole" on the device strings
Contains(whole, part) ==
    \/ part = whole
    \/ part = "Chrome 98" /\ whole = "Windows 11, Chrome 98"

\* the hours the clock shows when a call is made
DbHours == {3, 10}

\* datetime.now() when the clock shows hour
CurrentTime(hour) == [at |-> now, hour |-> hour]

\* the result of a Python call that returns None
None == [none |-> TRUE]

\* datetime.fromisoformat(): the date-time a text stands for, or ValueError
ValueError == [error |-> "ValueError"]

fromisoformat(text) ==
    LET DateTimes == {[at |-> t, hour |-> h] : t \in 0..MaxTime + 1, h \in 0..23}
    IN  IF \E dt \in DateTimes : isoformat(dt) = text
        THEN CHOOSE dt \in DateTimes : isoformat(dt) = text
        ELSE ValueError

\* UserDatabase.__init__ when the data file does not exist
NewUserDatabase ==
    [users |-> EmptyDict, stored_face |-> EmptyDict,
     stored_typing_pattern |-> EmptyDict, trusted_devices |-> EmptyDict,
     historical_logins |-> EmptyDict]

\* no data file on disk
NoFile == [exists |-> FALSE]

\* UserDatabase._save_data: the five tables written as one JSON document
save_data(db) ==
    [exists |-> TRUE,
     users |-> db.users,
     stored_face |-> db.stored_face,
     stored_typing_pattern |-> db.stored_typing_pattern,
     trusted_devices |-> db.trusted_devices,
     historical_logins |-> db.historical_logins]

\* str(user_id)
str(user_id) == ToString(user_id)

\* UserDatabase.add_user
add_user(db, file, user_id, user_data) ==
    IF str(user_id) \in DOMAIN db.users
    THEN [db |-> db, file |-> file, ret |-> FALSE]
    ELSE LET d1 == [db EXCEPT
                      !.users = Put(@, str(user_id), user_data),
                      !.stored_face =
                          IF "face_data" \in DOMAIN user_data
                          THEN Put(@, str(user_id), user_data.face_data)
                          ELSE @,
                      !.stored_typing_pattern =
                          IF "typing_pattern" \in DOMAIN user_data
                          THEN Put(@, str(user_id), user_data.typing_pattern)
                          ELSE @,
                      !.trusted_devices = Put(@, str(user_id), <<>>),
                      !.historical_logins = Put(@, str(user_id), <<>>)]
         IN  [db |-> d1, file |-> save_data(d1), ret |-> TRUE]

\* one optional key of the dict get_user_detail returns
WithTable(user_data, key, table, user_id_str) ==
    IF user_id_str \in DOMAIN table
    THEN Put(user_data, key, table[user_id_str])
    ELSE user_data

\* UserDatabase.get_user_detail
get_user_detail(db, file, user_id) ==
    LET user_id_str == str(user_id) IN
    IF user_id_str \notin DOMAIN db.users
    THEN [db |-> db, file |-> file, ret |-> None]
    ELSE LET u0 == db.users[user_id_str]
             u1 == WithTable(u0, "stored_face", db.stored_face, user_id_str)
             u2 == WithTable(u1, "stored_typing_pattern",
                             db.stored_typing_pattern, user_id_str)
             u3 == WithTable(u2, "trusted_devices", db.trusted_devices,
                             user_id_str)
             u4 == WithTable(u3, "historical_logins", db.historical_logins,
                             user_id_str)
         IN  [db |-> db, file |-> file, ret |-> u4]

\* UserDatabase.update_user on the whole object, for any user_data
UserDatabase_update_user(db, file, user_id, user_data) ==
    LET user_id_str == str(user_id) IN
    IF user_id_str \notin DOMAIN db.users
    THEN [db |-> db, file |-> file, ret |-> FALSE]
    ELSE LET d1 == [db EXCEPT
                      !.users[user_id_str] = Merge(user_data, @),
                      !.stored_face =
                          IF "face_data" \in DOMAIN user_data
                          THEN Put(@, user_id_str, user_data.face_data)
                          ELSE @,
                      !.stored_typing_pattern =
                          IF "typing_pattern" \in DOMAIN user_data
                          THEN Put(@, user_id_str, user_data.typing_pattern)
                          ELSE @]
         IN  [db |-> d1, file |-> save_data(d1), ret |-> TRUE]

\* add_login_record() that files the record before it looks the user up
add_login_record_ForUnknownUser(db, file, user_id, login_data, current_time) ==
    LET user_id_str == str(user_id)
        record == IF "timestamp" \notin DOMAIN login_data
                  THEN Put(login_data, "timestamp", isoformat(current_time))
                  ELSE login_data
        logins == Get(db.historical_logins, user_id_str, <<>>)
        d1 == [db EXCEPT
                 !.historical_logins =
                     Put(@, user_id_str, Append(logins, record))]
    IN  [db |-> d1, file |-> save_data(d1),
         ret |-> user_id_str \in DOMAIN db.users]

\* UserDatabase.add_login_record, called at current_time
add_login_record(db, file, user_id, login_data, current_time) ==
    LET user_id_str == str(user_id) IN
    IF user_id_str \notin DOMAIN db.users
    THEN [db |-> db, file |-> file, ret |-> FALSE]
    ELSE LET record == IF "timestamp" \notin DOMAIN login_data
                       THEN Put(login_data, "timestamp", isoformat(current_time))
                       ELSE login_data
             logins == Get(db.historical_logins, user_id_str, <<>>)
             d1 == [db EXCEPT
                      !.historical_logins =
                          Put(@, user_id_str, Append(logins, record))]
         IN  [db |-> d1, file |-> save_data(d1), ret |-> TRUE]

\* add_trusted_device() without the "not in" test before the append
add_trusted_device_NoMembershipTest(db, file, user_id, device_info) ==
    LET user_id_str == str(user_id) IN
    IF user_id_str \notin DOMAIN db.users
    THEN [db |-> db, file |-> file, ret |-> FALSE]
    ELSE LET devices == Get(db.trusted_devices, user_id_str, <<>>)
             d1 == [db EXCEPT
                      !.trusted_devices =
                          Put(@, user_id_str, Append(devices, device_info))]
         IN  [db |-> d1, file |-> save_data(d1), ret |-> TRUE]

\* UserDatabase.add_trusted_device
add_trusted_device(db, file, user_id, device_info) ==
    LET user_id_str == str(user_id) IN
    IF user_id_str \notin DOMAIN db.users
    THEN [db |-> db, file |-> file, ret |-> FALSE]
    ELSE LET devices == Get(db.trusted_devices, user_id_str, <<>>)
             d0 == [db EXCEPT !.trusted_devices = Put(@, user_id_str, devices)]
         IN  IF ~InList(device_info, devices)
             THEN LET d1 == [d0 EXCEPT
                               !.trusted_devices[user_id_str] =
                                   Append(@, device_info)]
                  IN  [db |-> d1, file |-> save_data(d1), ret |-> TRUE]
             ELSE [db |-> d0, file |-> file, ret |-> TRUE]

ANOMALY_DEVICE == "Untrusted device"
ANOMALY_LOCATION == "Unusual location"
ANOMALY_TIME == "Unusual login time"

\* the device rule of compare_with_current
DeviceAnomaly(db, user_id_str, current_data) ==
    /\ "device_info" \in DOMAIN current_data
    /\ ~ /\ user_id_str \in DOMAIN db.trusted_devices
         /\ \E i \in 1..Len(db.trusted_devices[user_id_str]) :
               Contains(db.trusted_devices[user_id_str][i],
                        current_data.device_info)

\* the location rule without the test that the history is non-empty
LocationAnomaly_NoHistoryCheck(db, user_id_str, current_data) ==
    /\ "location" \in DOMAIN current_data
    /\ user_id_str \in DOMAIN db.historical_logins
    /\ LET logins == db.historical_logins[user_id_str] IN
       ~ \E i \in 1..Len(logins) :
            /\ "location" \in DOMAIN logins[i]
            /\ logins[i].location = current_data.location

\* the location rule of compare_with_current
LocationAnomaly(db, user_id_str, current_data) ==
    /\ "location" \in DOMAIN current_data
    /\ user_id_str \in DOMAIN db.historical_logins
    /\ LET logins == db.historical_logins[user_id_str] IN
       /\ ~ \E i \in 1..Len(logins) :
               /\ "location" \in DOMAIN logins[i]
               /\ logins[i].location = current_data.location
       /\ Len(logins) > 0

\* hour_counts of compare_with_current: the logins whose timestamp reads as a
\* date-time, counted by hour
HourCounts(logins) ==
    LET Hour(i) == fromisoformat(logins[i].timestamp).hour
        Timed == {i \in 1..Len(logins) :
                     /\ "timestamp" \in DOMAIN logins[i]
                     /\ fromisoformat(logins[i].timestamp) # ValueError}
    IN  [h \in {Hour(i) : i \in Timed} |->
            Cardinality({i \in Timed : Hour(i) = h})]

\* the time rule of compare_with_current, the clock showing current_hour
TimeAnomaly(db, user_id_str, current_hour) ==
    /\ user_id_str \in DOMAIN db.historical_logins
    /\ Len(db.historical_logins[user_id_str]) > 0
    /\ LET hour_counts == HourCounts(db.historical_logins[user_id_str]) IN
       /\ DOMAIN hour_counts # {}
       /\ current_hour \in DOMAIN hour_counts
       /\ hour_counts[current_hour] < 2

\* anomalies.append(tag) when the rule fires
Tag(anomalies, fires, tag) == IF fires THEN Append(anomalies, tag) ELSE anomalies

\* compare_with_current() that files the login it was asked about
compare_with_current_Files(db, file, user_id, current_data, current_hour) ==
    LET user_id_str == str(user_id) IN
    IF user_id_str \notin DOMAIN db.users
    THEN [db |-> db, file |-> file,
          ret |-> [error |-> "User not found", anomalies |-> <<>>]]
    ELSE LET a1 == Tag(<<>>, DeviceAnomaly(db, user_id_str, current_data),
                       ANOMALY_DEVICE)
             a2 == Tag(a1, LocationAnomaly(db, user_id_str, current_data),
                       ANOMALY_LOCATION)
             anomalies == Tag(a2, TimeAnomaly(db, user_id_str, current_hour),
                              ANOMALY_TIME)
             d1 == [db EXCEPT
                      !.historical_logins[user_id_str] =
                          Append(@, current_data)]
         IN  [db |-> d1, file |-> file,
              ret |-> [user_id |-> user_id,
                       anomalies |-> anomalies,
                       anomaly_count |-> Len(anomalies),
                       is_suspicious |-> Len(anomalies) > 1]]

\* UserDatabase.compare_with_current, the clock showing current_hour
compare_with_current(db, file, user_id, current_data, current_hour) ==
    LET user_id_str == str(user_id) IN
    IF user_id_str \notin DOMAIN db.users
    THEN [db |-> db, file |-> file,
          ret |-> [error |-> "User not found", anomalies |-> <<>>]]
    ELSE LET a1 == Tag(<<>>, DeviceAnomaly(db, user_id_str, current_data),
                       ANOMALY_DEVICE)
             a2 == Tag(a1, LocationAnomaly(db, user_id_str, current_data),
                       ANOMALY_LOCATION)
             anomalies == Tag(a2, TimeAnomaly(db, user_id_str, current_hour),
                              ANOMALY_TIME)
         IN  [db |-> db, file |-> file,
              ret |-> [user_id |-> user_id,
                       anomalies |-> anomalies,
                       anomaly_count |-> Len(anomalies),
                       is_suspicious |-> Len(anomalies) > 1]]

\* the ids the calls are made with: an id is unknown until add_user adds it
NewUserIds == {1001, 1002}

\* the user_data add_user is called with
NewUserData ==
    {[username |-> "angel_abubakar", balance |-> 5000,
      face_data |-> "base64_encoded_face_data_for_angel",
      typing_pattern |-> "angel_typing_pattern_data"]}

\* the user_data update_user is called with
UpdateData == {[balance |-> 4500, face_data |-> "new_face_data"]}

\* the login_data add_login_record is called with: it has no timestamp of
\* its own (the histories of PreparedDatabases are made of records that do)
LoginData == {[location |-> "B", success |-> FALSE]}

\* the current_data compare_with_current is called with
CurrentData == {[device_info |-> "Chrome 98", location |-> "A"]}

\* the number of entries of all lists of a table
RECURSIVE TotalLen(_)
TotalLen(table) ==
    IF DOMAIN table = {} THEN 0
    ELSE LET k == CHOOSE k \in DOMAIN table : TRUE
         IN  Len(table[k]) + TotalLen([x \in DOMAIN table \ {k} |-> table[x]])

AddUser ==
    \E user_id \in NewUserIds, user_data \in NewUserData :
        LET r == add_user(user_db, db_file, user_id, user_data) IN
        /\ user_db' = r.db
        /\ db_file' = r.file
        /\ db_call' = [op |-> "add_user", user_id |-> user_id,
                       user_data |-> user_data, ret |-> r.ret]
        /\ UNCHANGED <<now, transaction, call, defense_system, pds_call, threads,
                       level0, data_file, flows, ai_call, auth_system, auth_call>>

GetUserDetail ==
    \E user_id \in NewUserIds :
        LET r == get_user_detail(user_db, db_file, user_id) IN
        /\ user_db' = r.db
        /\ db_file' = r.file
        /\ db_call' = [op |-> "get_user_detail", user_id |-> user_id,
                       ret |-> r.ret]
        /\ UNCHANGED <<now, transaction, call, defense_system, pds_call, threads,
                       level0, data_file, flows, ai_call, auth_system, auth_call>>

UpdateUser ==
    \E user_id \in NewUserIds, user_data \in UpdateData :
        LET r == UserDatabase_update_user(user_db, db_file, user_id, user_data)
        IN  /\ user_db' = r.db
            /\ db_file' = r.file
            /\ db_call' = [op |-> "update_user", user_id |-> user_id,
                           user_data |-> user_data, ret |-> r.ret]
            /\ UNCHANGED <<now, transaction, call, defense_system, pds_call,
                           threads, level0, data_file, flows, ai_call,
                           auth_system, auth_call>>

AddLoginRecord ==
    \E user_id \in NewUserIds, login_data \in LoginData, hour \in DbHours :
        LET r == add_login_record(user_db, db_file, user_id, login_data,
                                  CurrentTime(hour))
        IN  /\ TotalLen(r.db.historical_logins) <= MaxRecords
            /\ user_db' = r.db
            /\ db_file' = r.file
            /\ db_call' = [op |-> "add_login_record", user_id |-> user_id,
                           login_data |-> login_data, ret |-> r.ret]
            /\ UNCHANGED <<now, transaction, call, defense_system, pds_call,
                           threads, level0, data_file, flows, ai_call,
                           auth_system, auth_call>>

AddTrustedDevice ==
    \E user_id \in NewUserIds, device_info \in Devices :
        LET r == add_trusted_device(user_db, db_file, user_id, device_info) IN
        /\ user_db' = r.db
        /\ db_file' = r.file
        /\ db_call' = [op |-> "add_trusted_device", user_id |-> user_id,
                       device_info |-> device_info, ret |-> r.ret]
        /\ UNCHANGED <<now, transaction, call, defense_system, pds_call, threads,
                       level0, data_file, flows, ai_call, auth_system, auth_call>>

CompareWithCurrent ==
    \E user_id \in NewUserIds, current_data \in CurrentData, hour \in DbHours :
        LET r == compare_with_current(user_db, db_file, user_id, current_data,
                                      hour)
        IN  /\ user_db' = r.db
            /\ db_file' = r.file
            /\ db_call' = [op |-> "compare_with_current", user_id |-> user_id,
                           current_data |-> current_data,
                           current_hour |-> hour, ret |-> r.ret]
            /\ UNCHANGED <<now, transaction, call, defense_system, pds_call,
                           threads, level0, data_file, flows, ai_call,
                           auth_system, auth_call>>

\* the login records of the histories a comparison is made with
HistoryRecords ==
    {Merge(loc, [timestamp |-> isoformat([at |-> 1, hour |-> ts[1]]),
                 success |-> ts[2]]) :
        loc \in {EmptyDict, [location |-> "A"], [location |-> "B"]},
        ts \in {<<3, TRUE>>, <<10, TRUE>>, <<10, FALSE>>}}
    \cup {[location |-> "A", timestamp |-> "not a timestamp",
           success |-> TRUE]}

\* add_login_record called for each of the records, in order
RECURSIVE AddLoginRecords(_, _, _)
AddLoginRecords(st, user_id, records) ==
    IF records = <<>> THEN st
    ELSE AddLoginRecords(
             add_login_record(st.db, st.file, user_id, Head(records),
                              CurrentTime(10)),
             user_id, Tail(records))

\* the objects a comparison is made on: user 1001 added, with or without a
\* trusted device, and a login history of up to MaxLogins records
PreparedDatabases ==
    LET added == add_user(NewUserDatabase, NoFile, 1001,
                          CHOOSE user_data \in NewUserData : TRUE)
        trusted == add_trusted_device(added.db, added.file, 1001,
                                      "Windows 11, Chrome 98")
    IN  {AddLoginRecords(st, 1001, records) :
            st \in {added, trusted},
            records \in UNION {[1..n -> HistoryRecords] : n \in 0..MaxLogins}}

\* the comparisons made: for user 1001 and the unknown user 1003, with and
\* without a device and a location, at either hour
Comparisons ==
    {[op |-> "pending", user_id |-> user_id,
      current_data |-> Merge(dev, loc), current_hour |-> hour] :
        user_id \in {1001, 1003},
        dev \in {EmptyDict, [device_info |-> "Chrome 98"]},
        loc \in {EmptyDict, [location |-> "A"], [location |-> "C"]},
        hour \in DbHours}

\* the pending compare_with_current call is made
Compare ==
    /\ db_call.op = "pending"
    /\ LET r == compare_with_current(user_db, db_file, db_call.user_id,
                                     db_call.current_data, db_call.current_hour)
       IN  /\ user_db' = r.db
           /\ db_file' = r.file
           /\ db_call' = [op |-> "compare_with_current",
                          user_id |-> db_call.user_id,
                          current_data |-> db_call.current_data,
                          current_hour |-> db_call.current_hour,
                          ret |-> r.ret]
    /\ UNCHANGED <<now, transaction, call, defense_system, pds_call, threads,
                   level0, data_file, flows, ai_call, auth_system, auth_call>>

\* ------------------------------------------------------------- specifications
vars == <<now, transaction, call, defense_system, pds_call, threads, level0,
          data_file, flows, ai_call, auth_system, auth_call,
          user_db, db_file, db_call>>

Flows == {1, 2}

Init ==
    /\ now = 1
    /\ transaction = NewTransaction(1001, 1002, 500)
    /\ call = [op |-> "init", ret |-> TRUE]
    /\ defense_system = NewDefenseSystem(1)
    /\ pds_call = [op |-> "init"]
    /\ threads = [t \in Threads |-> IdleThread]
    /\ level0 = THREAT_LEVEL_LOW
    /\ data_file = DemoBalances
    /\ flows = [f \in Flows |-> IdleFlow]
    /\ ai_call = [op |-> "init"]
    /\ auth_system = NewAuthenticationSystem(1, 12)
    /\ auth_call = [op |-> "init"]
    /\ user_db = NewUserDatabase
    /\ db_file = NoFile
    /\ db_call = [op |-> "init"]

\* the calls on one Transaction object
TxnNext == TxnComplete \/ TxnFail \/ TxnBlock \/ TxnFlagForReview

SpecTxn == Init /\ [][TxnNext]_vars

\* the calls on one ProactiveDefenseSystem object, one after the other
PdsNext == DetectThreat \/ BlockAccess \/ AlertSecurityTeam \/ RunSecurityScan

SpecPds == Init /\ [][PdsNext]_vars

\* two threads in detect_threat on one shared object, any interleaving
PdsConcInit ==
    /\ now = 1
    /\ transaction = NewTransaction(1001, 1002, 500)
    /\ call = [op |-> "init", ret |-> TRUE]
    /\ defense_system \in PreparedSystems
    /\ pds_call = [op |-> "init"]
    /\ threads = [t \in Threads |-> IdleThread]
    /\ level0 = defense_system.threat_level
    /\ data_file = DemoBalances
    /\ flows = [f \in Flows |-> IdleFlow]
    /\ ai_call = [op |-> "init"]
    /\ auth_system = NewAuthenticationSystem(1, 12)
    /\ auth_call = [op |-> "init"]
    /\ user_db = NewUserDatabase
    /\ db_file = NoFile
    /\ db_call = [op |-> "init"]

PdsConcNext ==
    \/ Spawn
    \/ \E self \in Threads :
          \/ T_l58(self) \/ T_l68(self) \/ T_l80(self) \/ T_l90(self)
          \/ T_l117(self) \/ T_l119(self) \/ T_l121(self) \/ T_l123(self)
          \/ T_plan_write(self) \/ T_l101(self) \/ T_l108(self)

SpecPdsConc == PdsConcInit /\ [][PdsConcNext]_vars

\* two threads in block_access on one shared object, any interleaving
BlockConcNext ==
    \/ SpawnBlock
    \/ \E self \in Threads : B_l139(self) \/ B_l140(self) \/ B_l150(self)

SpecBlockConc == PdsConcInit /\ [][BlockConcNext]_vars

\* a thread in detect_threat and a thread in run_security_scan on one shared
\* object, any interleaving
ScanConcNext ==
    \/ SpawnScan
    \/ \E self \in Threads :
          \/ T_l58(self) \/ T_l68(self) \/ T_l80(self) \/ T_l90(self)
          \/ T_l117(self) \/ T_l119(self) \/ T_l121(self) \/ T_l123(self)
          \/ T_plan_write(self) \/ T_l101(self) \/ T_l108(self)
          \/ S_l210(self) \/ S_l219(self) \/ S_l224(self) \/ S_l227(self)

SpecScanConc == PdsConcInit /\ [][ScanConcNext]_vars

\* invocations of transfer and simulate_transaction, one at a time; the
\* record of a finished flow stays in its slot until the next one starts
TransferNext ==
    \/ \E s \in UserIds, r \in UserIds, amount \in TransferAmounts :
          TransferStart(1, s, r, amount)
    \/ TransferAssess(1)
    \/ TransferConfirm(1)
    \/ TransferComplete(1)
    \/ TransferUpdateSender(1)
    \/ TransferUpdateReceiver(1)
    \/ \E s \in UserIds, r \in UserIds, amount \in TransferAmounts,
          is_legitimate \in BOOLEAN :
          SimulateTransaction(1, s, r, amount, is_legitimate)

SpecTransfer == Init /\ [][TransferNext]_vars

\* the data file before two invocations of transfer: the demo data, or the
\* demo data after user 1002 has sent 5000 to user 1001
PreparedFiles == {DemoBalances, (1001 :> 10000) @@ (1002 :> 2500)}

TransferConcInit ==
    /\ now = 1
    /\ transaction = NewTransaction(1001, 1002, 500)
    /\ call = [op |-> "init", ret |-> TRUE]
    /\ defense_system = NewDefenseSystem(1)
    /\ pds_call = [op |-> "init"]
    /\ threads = [t \in Threads |-> IdleThread]
    /\ level0 = THREAT_LEVEL_LOW
    /\ data_file \in PreparedFiles
    /\ flows = [f \in Flows |-> IdleFlow]
    /\ ai_call = [op |-> "init"]
    /\ auth_system = NewAuthenticationSystem(1, 12)
    /\ auth_call = [op |-> "init"]
    /\ user_db = NewUserDatabase
    /\ db_file = NoFile
    /\ db_call = [op |-> "init"]

\* two invocations of transfer (two processes, each with the UserDatabase it
\* loaded from the one data file), their steps interleaved in any order; each
\* slot runs one invocation
TransferBegin(f) ==
    /\ flows[f].pc = "idle"
    /\ \E s \in UserIds, r \in UserIds, amount \in TransferAmounts :
          TransferStart(f, s, r, amount)

TransferConcNext ==
    \E f \in Flows :
        \/ TransferBegin(f)
        \/ TransferAssess(f)
        \/ TransferConfirm(f)
        \/ TransferComplete(f)
        \/ TransferUpdateSender(f)
        \/ TransferUpdateReceiver(f)

SpecTransferConc == TransferConcInit /\ [][TransferConcNext]_vars

\* one call of predict_risk_level, for every input
AiInit ==
    /\ now = 1
    /\ transaction = NewTransaction(1001, 1002, 500)
    /\ call = [op |-> "init", ret |-> TRUE]
    /\ defense_system = NewDefenseSystem(1)
    /\ pds_call = [op |-> "init"]
    /\ threads = [t \in Threads |-> IdleThread]
    /\ level0 = THREAT_LEVEL_LOW
    /\ data_file = DemoBalances
    /\ flows = [f \in Flows |-> IdleFlow]
    /\ ai_call \in {[op |-> "pending", verification_results |-> vr] :
                        vr \in VerificationResults}
    /\ auth_system = NewAuthenticationSystem(1, 12)
    /\ auth_call = [op |-> "init"]
    /\ user_db = NewUserDatabase
    /\ db_file = NoFile
    /\ db_call = [op |-> "init"]

AiNext == PredictRiskLevel

SpecAi == AiInit /\ [][AiNext]_vars

\* the calls on one AuthenticationSystem object, built at any of the hours
AuthInit ==
    /\ now = 1
    /\ transaction = NewTransaction(1001, 1002, 500)
    /\ call = [op |-> "init", ret |-> TRUE]
    /\ defense_system = NewDefenseSystem(1)
    /\ pds_call = [op |-> "init"]
    /\ threads = [t \in Threads |-> IdleThread]
    /\ level0 = THREAT_LEVEL_LOW
    /\ data_file = DemoBalances
    /\ flows = [f \in Flows |-> IdleFlow]
    /\ ai_call = [op |-> "init"]
    /\ auth_system \in {NewAuthenticationSystem(1, h) : h \in LoginHours}
    /\ auth_call = [op |-> "init"]
    /\ user_db = NewUserDatabase
    /\ db_file = NoFile
    /\ db_call = [op |-> "init"]

AuthNext == EvaluateRisk \/ Authenticate

SpecAuth == AuthInit /\ [][AuthNext]_vars

\* time passes between the calls on an AuthenticationSystem
ClockTick ==
    /\ now < MaxTime
    /\ now' = now + 1
    /\ UNCHANGED <<transaction, call, defense_system, pds_call, threads,
                   level0, data_file, flows, ai_call, auth_system, auth_call,
                   user_db, db_file, db_call>>

\* the calls on one AuthenticationSystem object, made at any later time
AuthClockNext == EvaluateRisk \/ Authenticate \/ ClockTick

\* an instance built at 1 o'clock or at 5 o'clock
AuthClockInit ==
    /\ AuthInit
    /\ auth_system.login_time.hour \in {1, 5}

SpecAuthClock == AuthClockInit /\ [][AuthClockNext]_vars

\* the calls on one UserDatabase object, started without a data file
DbNext ==
    \/ AddUser \/ GetUserDetail \/ UpdateUser \/ AddLoginRecord
    \/ AddTrustedDevice \/ CompareWithCurrent

SpecDb == Init /\ [][DbNext]_vars

\* one call of compare_with_current, for every prepared object and comparison
CompareInit ==
    /\ now = 1
    /\ transaction = NewTransaction(1001, 1002, 500)
    /\ call = [op |-> "init", ret |-> TRUE]
    /\ defense_system = NewDefenseSystem(1)
    /\ pds_call = [op |-> "init"]
    /\ threads = [t \in Threads |-> IdleThread]
    /\ level0 = THREAT_LEVEL_LOW
    /\ data_file = DemoBalances
    /\ flows = [f \in Flows |-> IdleFlow]
    /\ ai_call = [op |-> "init"]
    /\ auth_system = NewAuthenticationSystem(1, 12)
    /\ auth_call = [op |-> "init"]
    /\ \E st \in PreparedDatabases : user_db = st.db /\ db_file = st.file
    /\ db_call \in Comparisons

CompareNext == Compare

SpecCompare == CompareInit /\ [][CompareNext]_vars

\* ===================================================================== claims
\* ---- Transaction state machine (checked under SpecTxn)

\* the statuses one call can produce from status s, whatever its arguments
StatusSuccessors(s) ==
    LET t == [NewTransaction(1001, 1002, 500) EXCEPT !.status = s] IN
    {complete(t, 1).t.status}
        \cup {fail(t, r, 1).t.status : r \in Reasons}
        \cup {block(t, r, 1).t.status : r \in Reasons}
        \cup {flag_for_review(t, sc, 1).t.status : sc \in RiskScores}

RECURSIVE StatusClosure(_, _)
StatusClosure(S, n) ==
    IF n = 0 THEN S
    ELSE StatusClosure(S \cup UNION {StatusSuccessors(s) : s \in S}, n - 1)

\* the statuses reachable from s by any sequence of calls
StatusReach(s) == StatusClosure({s}, Cardinality(Statuses))

\* C1: once the status is Completed, every call (complete, fail, block,
\* flag_for_review) leaves it Completed and returns False.
C1_CompletedIsFinal ==
    [][transaction.status = STATUS_COMPLETED
         => /\ transaction'.status = STATUS_COMPLETED
            /\ call'.ret = FALSE]_vars

\* a block() call was rejected on a completed transaction
C1_Witness ==
    /\ transaction.status = STATUS_COMPLETED
    /\ call.op = "block"
    /\ call.ret = FALSE

\* C3: complete, block and flag_for_review return True exactly from Pending
\* and move to Completed, Blocked, UnderReview; fail returns True exactly
\* from a status other than Completed and moves to Failed.
C3_TransitionGuards ==
    [][/\ call'.op = "complete" =>
            /\ call'.ret = (transaction.status = STATUS_PENDING)
            /\ call'.ret => transaction'.status = STATUS_COMPLETED
       /\ call'.op = "block" =>
            /\ call'.ret = (transaction.status = STATUS_PENDING)
            /\ call'.ret => transaction'.status = STATUS_BLOCKED
       /\ call'.op = "flag_for_review" =>
            /\ call'.ret = (transaction.status = STATUS_PENDING)
            /\ call'.ret => transaction'.status = STATUS_UNDER_REVIEW
       /\ call'.op = "fail" =>
            /\ call'.ret = (transaction.status # STATUS_COMPLETED)
            /\ call'.ret => transaction'.status = STATUS_FAILED]_vars

\* fail() succeeded on a transaction that had been blocked
C3_Witness ==
    /\ call.op = "fail"
    /\ call.ret = TRUE
    /\ transaction.status = STATUS_FAILED
    /\ "blocked_at" \in DOMAIN transaction.metadata

\* C4 as stated: once Failed or Blocked, no call changes the status.
C4_Original ==
    [][transaction.status \in {STATUS_FAILED, STATUS_BLOCKED}
         => transaction'.status = transaction.status]_vars

\* C4 amended: Failed is final; Blocked changes only to Failed, and only by
\* fail(); complete, block and flag_for_review are rejected in both.
C4_FailedFinalBlockedOnlyFails ==
    [][/\ transaction.status = STATUS_FAILED
            => /\ transaction'.status = STATUS_FAILED
               /\ call'.op # "fail" => call'.ret = FALSE
       /\ transaction.status = STATUS_BLOCKED
            => /\ transaction'.status \in {STATUS_BLOCKED, STATUS_FAILED}
               /\ transaction'.status = STATUS_FAILED => call'.op = "fail"
               /\ call'.op # "fail" => call'.ret = FALSE]_vars

\* a blocked transaction was failed, and a later complete() was rejected
C4_Witness ==
    /\ transaction.status = STATUS_FAILED
    /\ "block_reason" \in DOMAIN transaction.metadata
    /\ call.op = "complete"
    /\ call.ret = FALSE

\* C5 as stated: from UnderReview both Completed and Failed are reachable
\* through the transaction's operations.
C5_Original ==
    transaction.status = STATUS_UNDER_REVIEW
        => /\ STATUS_COMPLETED \in StatusReach(transaction.status)
           /\ STATUS_FAILED \in StatusReach(transaction.status)

\* C5 amended: from UnderReview the only status change is to Failed, by
\* fail(); complete() is rejected, so Completed is not reachable.
C5_ReviewResolvesOnlyToFailed ==
    [][transaction.status = STATUS_UNDER_REVIEW
         => /\ transaction'.status \in {STATUS_UNDER_REVIEW, STATUS_FAILED}
            /\ call'.op = "fail" =>
                   (call'.ret /\ transaction'.status = STATUS_FAILED)
            /\ call'.op = "complete" => call'.ret = FALSE
            /\ StatusReach(STATUS_UNDER_REVIEW)
                   = {STATUS_UNDER_REVIEW, STATUS_FAILED}]_vars

\* a transaction flagged for review was resolved to Failed
C5_Witness ==
    /\ transaction.status = STATUS_FAILED
    /\ "flagged_at" \in DOMAIN transaction.metadata
    /\ "blocked_at" \notin DOMAIN transaction.metadata

\* C6: a call that returns False leaves status, risk_score and metadata as
\* they were.
C6_RejectedIsNoOp ==
    [][call'.ret = FALSE => transaction' = transaction]_vars

\* flag_for_review() was rejected on a transaction that already carries a
\* score from an earlier flag
C6_Witness ==
    /\ call.op = "flag_for_review"
    /\ call.ret = FALSE
    /\ "risk_score" \in DOMAIN transaction.metadata
    /\ transaction.risk_score = transaction.metadata["risk_score"]

\* ---- ProactiveDefenseSystem, calls one after the other (checked under SpecPds)

\* the greatest element of a non-empty set of levels
MaxOf(S) == CHOOSE x \in S : \A y \in S : y <= x

\* the floors of the rules that fire on event a: High for login_attempts > 5,
\* Medium for a flagged transaction over 10000, Critical for a blocked ip
FiredFloors(a, flagged, blocked_ips) ==
    (IF "login_attempts" \in DOMAIN a /\ a["login_attempts"] > 5
     THEN {THREAT_LEVEL_HIGH} ELSE {})
    \cup (IF /\ "transaction" \in DOMAIN a
             /\ a["transaction"].amount > 10000
             /\ flagged
          THEN {THREAT_LEVEL_MEDIUM} ELSE {})
    \cup (IF /\ "ip_address" \in DOMAIN a
             /\ \E i \in 1..Len(blocked_ips) : blocked_ips[i] = a["ip_address"]
          THEN {THREAT_LEVEL_CRITICAL} ELSE {})

\* C7: after every detect_threat call the threat level is the maximum of the
\* level before the call and the floors of the rules that fired; a lower floor
\* never lowers a higher level.
C7_LevelIsMaxOfFloors ==
    [][pds_call'.op = "detect_threat"
         => defense_system'.threat_level =
                MaxOf({defense_system.threat_level}
                      \cup FiredFloors(pds_call'.activity_data,
                                       pds_call'.flagged,
                                       defense_system.blocked_ips))]_vars

\* C8: over any sequence of detect_threat, run_security_scan, block_access and
\* alert_security_team calls the threat level never decreases.
C8_LevelNeverDecreases ==
    [][defense_system'.threat_level >= defense_system.threat_level]_vars

\* C9: once the threat level has left Low it never returns to Low.
C9_NeverBackToLow ==
    [][defense_system.threat_level # THREAT_LEVEL_LOW
         => defense_system'.threat_level # THREAT_LEVEL_LOW]_vars

\* a scan was run after the level had been Critical, and the level is not Low
C9_Witness ==
    /\ pds_call.op = "run_security_scan"
    /\ defense_system.threat_level # THREAT_LEVEL_LOW
    /\ \E i \in 1..Len(defense_system.security_alerts) :
           /\ defense_system.security_alerts[i].status = "new"
           /\ defense_system.security_alerts[i].threat_level
                  = THREAT_LEVEL_CRITICAL

\* ---- two concurrent detect_threat calls (checked under SpecPdsConc)

\* C10: when two concurrent detect_threat calls have both returned, the threat
\* level is the maximum of the level before them and the floors both raised.
C10_ConcurrentLevelIsMax ==
    AllDone => defense_system.threat_level =
                   MaxOf({level0} \cup UNION {threads[t].floors : t \in Threads})

\* ---- the transfer flows (checked under SpecTransfer)

\* C2: the stored balances change only after complete() has succeeded: as
\* long as the transaction of an invocation is not Completed (Failed,
\* UnderReview, still Pending, or never created), every stored balance has
\* the value it had when the invocation began.
C2_BalancesChangeOnlyAfterComplete ==
    \A f \in Flows :
        (flows[f].pc # "idle" /\ flows[f].transaction.status # STATUS_COMPLETED)
            => /\ data_file = flows[f].file0
               /\ flows[f].writes = 0

\* a transfer passed the risk gate, was cancelled at the prompt and ended
\* Failed after an earlier transfer had changed the balances
C2_Witness ==
    \E f \in Flows :
        /\ flows[f].kind = "transfer" /\ flows[f].pc = "done"
        /\ flows[f].transaction.status = STATUS_FAILED
        /\ flows[f].threat_detected
        /\ data_file # DemoBalances
        /\ data_file = flows[f].file0

\* ---- concurrent block_access (checked under SpecBlockConc)

\* how often x occurs in list
Count(x, list) == Cardinality({i \in 1..Len(list) : list[i] = x})

\* C11: after any interleaving of concurrent block_access calls that carry
\* the same ip_address, blocked_ips contains that address exactly once.
C11_ConcurrentBlockOnce ==
    (/\ AllDone
     /\ \A t \in Threads : threads[t].op = "block_access"
     /\ \A t \in Threads : "ip_address" \in DOMAIN threads[t].access_data
     /\ threads[1].access_data["ip_address"] =
            threads[2].access_data["ip_address"])
        => Count(threads[1].access_data["ip_address"],
                 defense_system.blocked_ips) = 1
\* ---- block-list and response plan (checked under SpecPds)

\* no entry of list occurs twice
NoDuplicates(list) ==
    \A i, j \in 1..Len(list) : list[i] = list[j] => i = j

\* C12: after any sequence of calls blocked_ips contains no IP twice; a
\* block_access for an already-blocked IP leaves blocked_ips unchanged; every
\* block_access call, duplicate or not, appends one alert with status
\* 'resolved'.
C12_BlockAccessIdempotent ==
    [][/\ NoDuplicates(defense_system.blocked_ips)
       /\ NoDuplicates(defense_system'.blocked_ips)
       /\ pds_call'.op = "block_access" =>
            /\ ("ip_address" \in DOMAIN pds_call'.access_data
                  /\ InList(pds_call'.access_data["ip_address"],
                            defense_system.blocked_ips))
                => defense_system'.blocked_ips = defense_system.blocked_ips
            /\ Len(defense_system'.security_alerts) =
                   Len(defense_system.security_alerts) + 1
            /\ SubSeq(defense_system'.security_alerts, 1,
                      Len(defense_system.security_alerts)) =
                   defense_system.security_alerts
            /\ LET alert == defense_system'.security_alerts[
                                Len(defense_system'.security_alerts)]
               IN  /\ alert.status = "resolved"
                   /\ alert.action = "block_access"]_vars

\* the same IP was blocked twice: one entry in the list, two resolved alerts
C12_Witness ==
    /\ pds_call.op = "block_access"
    /\ "ip_address" \in DOMAIN pds_call.access_data
    /\ defense_system.blocked_ips = <<pds_call.access_data["ip_address"]>>
    /\ Len(defense_system.security_alerts) = 2
    /\ \A i \in 1..2 :
          /\ defense_system.security_alerts[i].status = "resolved"
          /\ defense_system.security_alerts[i].details = pds_call.access_data

\* C13: once an IP is in the block-list it stays there, and every
\* detect_threat call whose event carries it reports a threat of type
\* blocked_ip_access and leaves the threat level at Critical, whatever other
\* fields the event has.
C13_BlockedIpIsCritical ==
    [][/\ \A ip \in IPs :
             InList(ip, defense_system.blocked_ips)
                 => InList(ip, defense_system'.blocked_ips)
       /\ (/\ pds_call'.op = "detect_threat"
           /\ "ip_address" \in DOMAIN pds_call'.activity_data
           /\ InList(pds_call'.activity_data["ip_address"],
                     defense_system.blocked_ips))
          => /\ pds_call'.ret.threat_detected
             /\ pds_call'.ret.threat_details.type = "blocked_ip_access"
             /\ pds_call'.ret.threat_level = THREAT_LEVEL_CRITICAL
             /\ defense_system'.threat_level = THREAT_LEVEL_CRITICAL]_vars

\* an event from a blocked IP that also fires the login and the transaction
\* rule was reported as blocked_ip_access
C13_Witness ==
    /\ pds_call.op = "detect_threat"
    /\ LoginRuleFires(pds_call.activity_data)
    /\ TransactionRuleFires(pds_call.activity_data, pds_call.flagged)
    /\ "ip_address" \in DOMAIN pds_call.activity_data
    /\ InList(pds_call.activity_data["ip_address"], defense_system.blocked_ips)
    /\ pds_call.ret.threat_details.type = "blocked_ip_access"
    /\ defense_system.threat_level = THREAT_LEVEL_CRITICAL

\* the fixed plan string of a level
PlanOf(level) ==
    CASE level = THREAT_LEVEL_LOW -> PLAN_LOW
      [] level = THREAT_LEVEL_MEDIUM -> PLAN_MEDIUM
      [] level = THREAT_LEVEL_HIGH -> PLAN_HIGH
      [] level = THREAT_LEVEL_CRITICAL -> PLAN_CRITICAL

\* C14: after any sequence of completed calls, response_plan is the fixed
\* plan string of the current threat_level, whatever happened before.
C14_PlanFollowsLevel ==
    defense_system.response_plan = PlanOf(defense_system.threat_level)

\* the level came down from Critical to High and the plan is the High plan
C14_Witness ==
    /\ defense_system.threat_level = THREAT_LEVEL_HIGH
    /\ defense_system.response_plan = PLAN_HIGH
    /\ \E i \in 1..Len(defense_system.active_threats) :
          defense_system.active_threats[i].details.type = "blocked_ip_access"
\* ---- the flows and their threat detector (checked under SpecTransfer)

\* C15: the threat detector's state is shared by the flows: the detector a
\* flow starts with has the threat level and the block-list the flow before
\* it left behind.
C15_DetectorStateIsShared ==
    [][\A f \in Flows :
          (/\ flows[f].kind # "none" /\ flows[f].pc = "done"
           /\ flows'[f].kind # "none"
           /\ flows'[f] # flows[f])
          => /\ flows'[f].defense_system0.threat_level =
                    flows[f].defense_system.threat_level
             /\ flows'[f].defense_system0.blocked_ips =
                    flows[f].defense_system.blocked_ips]_vars

\* the risk gate of both flows (cli.py line 193, main.py line 332)
Gated(fl) == fl.risk_score > 7 \/ fl.threat_detected

\* C16: a transaction whose risk score exceeds 0.7 or for which detect_threat
\* reported a threat is never Completed in its flow, is UnderReview when the
\* flow ends, and the security team is alerted when the score exceeds 0.8.
C16_RiskGate ==
    \A f \in Flows :
        (flows[f].kind # "none" /\ Gated(flows[f]))
        => /\ flows[f].transaction.status # STATUS_COMPLETED
           /\ flows[f].pc = "done" =>
                 /\ flows[f].transaction.status = STATUS_UNDER_REVIEW
                 /\ flows[f].risk_score > 8 => flows[f].alerted
\* ---- the risk aggregator (checked under SpecAi)

\* the factors that carry a weight
WeightedFactors == {"face", "typing", "location", "device"}

\* C17: predict_risk_level returns exactly 0.9 whenever its input holds no
\* signal for a weighted factor, the empty map included.
C17_NoSignalIsHighRisk ==
    (/\ ai_call.op = "predict_risk_level"
     /\ DOMAIN ai_call.verification_results \cap WeightedFactors = {})
        => ai_call.ret = [num |-> 9, den |-> 10]

\* a call whose only signal is for a factor without weight returned 0.9
C17_Witness ==
    /\ ai_call.op = "predict_risk_level"
    /\ DOMAIN ai_call.verification_results = {"voice"}
    /\ ai_call.ret = [num |-> 9, den |-> 10]

\* weight of factor f, in hundredths, if it is in vr, else 0
WeightIn(vr, f, w) == IF f \in DOMAIN vr THEN w ELSE 0

\* risk of factor f in vr, in 1/ScoreSteps: 1 - confidence for face and
\* typing, the score for location and device
RiskIn(vr, f) ==
    IF f \notin DOMAIN vr THEN 0
    ELSE IF f \in {"face", "typing"} THEN ScoreSteps - vr[f][2]
    ELSE vr[f][2]

\* sum(risk_f * w_f) and sum(w_f) over the weighted factors present in vr
RiskSum(vr) ==
    RiskIn(vr, "face") * 35 + RiskIn(vr, "typing") * 25
        + RiskIn(vr, "location") * 20 + RiskIn(vr, "device") * 20

WeightSum(vr) ==
    WeightIn(vr, "face", 35) + WeightIn(vr, "typing", 25)
        + WeightIn(vr, "location", 20) + WeightIn(vr, "device", 20)

\* C18: with a weighted factor present, predict_risk_level returns
\* sum(risk_f * w_f) / sum(w_f) over the factors present; the result lies in
\* [0, 1], is 0 when all four signals are perfect and 1 when all four are
\* worst.
C18_WeightedAverage ==
    (/\ ai_call.op = "predict_risk_level"
     /\ DOMAIN ai_call.verification_results \cap WeightedFactors # {})
        => LET vr == ai_call.verification_results
               ret == ai_call.ret
           IN  /\ ret.den > 0
               /\ ret.num * (WeightSum(vr) * ScoreSteps) = RiskSum(vr) * ret.den
               /\ 0 <= ret.num /\ ret.num <= ret.den
               /\ (/\ WeightedFactors \subseteq DOMAIN vr
                   /\ \A f \in WeightedFactors : RiskIn(vr, f) = 0)
                      => ret.num = 0
               /\ (/\ WeightedFactors \subseteq DOMAIN vr
                   /\ \A f \in WeightedFactors : RiskIn(vr, f) = ScoreSteps)
                      => ret.num = ret.den

\* a call with face at its worst and device at its best only returned
\* 0.35 / 0.55
C18_Witness ==
    /\ ai_call.op = "predict_risk_level"
    /\ DOMAIN ai_call.verification_results = {"face", "device"}
    /\ ai_call.verification_results["face"][2] = 0
    /\ ai_call.verification_results["device"][2] = 0
    /\ ai_call.ret.num * 55 = 35 * ai_call.ret.den

\* x <= y on fractions with positive denominators
Leq(x, y) == x.num * y.den <= y.num * x.den

\* vr with factor f left out
Without(vr, f) == [g \in (DOMAIN vr) \ {f} |-> vr[g]]

\* C19: for every set of signals and every factor in it, the risk computed
\* with that factor left out is never lower than the risk computed with it.
C19_MissingFactorRaisesRisk ==
    ai_call.op = "predict_risk_level"
        => \A f \in DOMAIN ai_call.verification_results :
              Leq(ai_call.ret,
                  predict_risk_level(Without(ai_call.verification_results, f)))

\* ---- the risk evaluator (checked under SpecAuth)

\* 1 if the condition holds, else 0
Indicator(b) == IF b THEN 1 ELSE 0

\* C20: evaluate_risk returns min(1.0, 0.3*[face sample missing or empty]
\* + 0.2*[typing sample missing or empty] + 0.2*[login hour in 2..5]) and
\* records one risk factor per penalty applied; it returns 0.7 when both
\* samples are missing and the login is at 3 AM.
C20_EvaluateRiskAdditive ==
    auth_call.op = "evaluate_risk"
        => LET user_data == auth_call.user_data
               face == Indicator("face_data" \notin DOMAIN user_data
                                     \/ user_data["face_data"] = "")
               typing == Indicator("typing_pattern" \notin DOMAIN user_data
                                       \/ user_data["typing_pattern"] = "")
               hour == Indicator(auth_system.login_time.hour \in 2..5)
               sum == 3 * face + 2 * typing + 2 * hour
           IN  /\ auth_call.ret = IF sum > 10 THEN 10 ELSE sum
               /\ Len(auth_system.risk_factors) = face + typing + hour
               /\ (face = 1 /\ typing = 1
                      /\ auth_system.login_time.hour = 3)
                     => auth_call.ret = 7

\* evaluate_risk at 3 AM with an empty face sample and no typing sample
\* returned 0.7 and recorded three risk factors
C20_Witness ==
    /\ auth_call.op = "evaluate_risk"
    /\ auth_system.login_time.hour = 3
    /\ "face_data" \in DOMAIN auth_call.user_data
    /\ auth_call.user_data["face_data"] = ""
    /\ "typing_pattern" \notin DOMAIN auth_call.user_data
    /\ auth_call.ret = 7
    /\ Len(auth_system.risk_factors) = 3

\* C21: authenticate decides by the thresholds 0.5 and 0.7: a risk below 0.5
\* is allowed with no additional verification required, a risk from 0.5 up to
\* but not including 0.7 succeeds with additional verification required, and
\* a risk of 0.7 or more is denied with no challenge offered
C21_DecisionThresholds ==
    auth_call.op = "authenticate" =>
        LET risk == auth_call.ret.info.risk_level
            result == auth_call.ret.result
            challenge == auth_call.ret.info.additional_verification_required
        IN  /\ risk < 5 => result /\ ~challenge
            /\ 5 <= risk /\ risk < 7 => result /\ challenge
            /\ risk >= 7 => ~result /\ ~challenge

\* C23: every authenticate call appends exactly one entry to
\* authentication_history, with the device, location, risk level and outcome
\* of that attempt, the outcome being the returned result, and keeps the
\* earlier entries as they were and in order
C23_OneAuditEntryPerAttempt ==
    [][auth_call'.op = "authenticate" =>
        LET h == auth_system.authentication_history
            g == auth_system'.authentication_history
            user_data == auth_call'.user_data
        IN  /\ Len(g) = Len(h) + 1
            /\ SubSeq(g, 1, Len(h)) = h
            /\ g[Len(g)].device = Get(user_data, "device_info", "Unknown device")
            /\ g[Len(g)].location = Get(user_data, "location", "Unknown location")
            /\ g[Len(g)].risk_level = auth_call'.ret.info.risk_level
            /\ g[Len(g)].success = auth_call'.ret.result]_vars

\* the history holds two attempts from different devices, the first denied
\* and the second, the call just made, allowed
C23_Witness ==
    LET h == auth_system.authentication_history IN
    /\ auth_call.op = "authenticate"
    /\ Len(h) = 2
    /\ h[1].device # h[2].device
    /\ ~h[1].success /\ h[2].success
    /\ auth_call.ret.result

\* C24: evaluate_risk and authenticate return what they return on a system
\* with the same login time and an empty authentication_history, whatever
\* the history holds
C24_HistoryIsAdvisory ==
    LET fresh == NewAuthenticationSystem(auth_system.login_time.at,
                                         auth_system.login_time.hour)
    IN  /\ auth_call.op = "evaluate_risk" =>
               auth_call.ret = evaluate_risk(fresh, auth_call.user_data).ret
        /\ auth_call.op = "authenticate" =>
               auth_call.ret = authenticate(fresh, auth_call.user_data).ret

\* after two denied attempts evaluate_risk charged the login hour alone
C24_Witness ==
    LET h == auth_system.authentication_history IN
    /\ auth_call.op = "evaluate_risk"
    /\ Len(h) = 2
    /\ ~h[1].success /\ ~h[2].success
    /\ auth_call.ret = 2

\* the login history the object holds for the user of the last call
HistoryOf(user_id) ==
    Get(user_db.historical_logins, str(user_id), <<>>)

\* C25: for a login that carries a location, compare_with_current adds the
\* unusual-location tag exactly when the user's login history is non-empty
\* and no record of it has that location
C25_LocationRule ==
    (db_call.op = "compare_with_current"
        /\ "location" \in DOMAIN db_call.current_data) =>
        LET logins == HistoryOf(db_call.user_id)
            seen == {logins[i].location :
                        i \in {j \in 1..Len(logins) :
                                  "location" \in DOMAIN logins[j]}}
        IN  InList(ANOMALY_LOCATION, db_call.ret.anomalies)
                <=> (logins # <<>> /\ db_call.current_data.location \notin seen)

\* with logins on record at A and at B a login from C was tagged
C25_Witness ==
    /\ db_call.op = "compare_with_current"
    /\ LET logins == HistoryOf(db_call.user_id) IN
       /\ Len(logins) = 2
       /\ Get(logins[1], "location", "") = "A"
       /\ Get(logins[2], "location", "") = "B"
    /\ Get(db_call.current_data, "location", "") = "C"
    /\ InList(ANOMALY_LOCATION, db_call.ret.anomalies)

\* C26: compare_with_current adds the unusual-login-time tag exactly when
\* the history is non-empty and fewer than 2 of its successful logins, 0
\* included, fall in the current hour
C26_TimeRule ==
    db_call.op = "compare_with_current" =>
        LET logins == HistoryOf(db_call.user_id)
            same_hour == {i \in 1..Len(logins) :
                             /\ logins[i].success
                             /\ fromisoformat(logins[i].timestamp) # ValueError
                             /\ fromisoformat(logins[i].timestamp).hour
                                    = db_call.current_hour}
        IN  InList(ANOMALY_TIME, db_call.ret.anomalies)
                <=> (logins # <<>> /\ Cardinality(same_hour) < 2)

\* C27: a compare_with_current call, for a known or an unknown user, leaves
\* the users table, the trusted devices, the login histories and the data
\* file as they were
C27_CompareIsReadOnly ==
    [][db_call'.op = "compare_with_current" =>
          /\ user_db'.users = user_db.users
          /\ user_db'.trusted_devices = user_db.trusted_devices
          /\ user_db'.historical_logins = user_db.historical_logins
          /\ db_file' = db_file]_vars

\* a comparison for a known user with a history returned two anomalies
C27_Witness ==
    /\ db_call.op = "compare_with_current"
    /\ str(db_call.user_id) \in DOMAIN user_db.users
    /\ HistoryOf(db_call.user_id) # <<>>
    /\ Len(db_call.ret.anomalies) = 2

\* list starts with the entries of prefix, in order
StartsWith(list, prefix) ==
    Len(prefix) <= Len(list) /\ SubSeq(list, 1, Len(prefix)) = prefix

\* C28: no call removes or reorders an entry of a trusted-device list, a
\* list never holds a fingerprint twice, and after add_trusted_device has
\* returned True the list holds that fingerprint exactly once
C28_TrustedDevicesAppendOnly ==
    [][/\ \A u \in DOMAIN user_db.trusted_devices :
              /\ u \in DOMAIN user_db'.trusted_devices
              /\ StartsWith(user_db'.trusted_devices[u],
                            user_db.trusted_devices[u])
       /\ \A u \in DOMAIN user_db'.trusted_devices :
              NoDuplicates(user_db'.trusted_devices[u])
       /\ (db_call'.op = "add_trusted_device" /\ db_call'.ret) =>
              Count(db_call'.device_info,
                    user_db'.trusted_devices[str(db_call'.user_id)]) = 1
      ]_vars

\* add_trusted_device was called with the fingerprint that was added first
\* while the list held two fingerprints, and the list still holds two
C28_Witness ==
    /\ db_call.op = "add_trusted_device"
    /\ db_call.ret
    /\ LET devices == user_db.trusted_devices[str(db_call.user_id)] IN
       /\ Len(devices) = 2
       /\ devices[1] = db_call.device_info

\* C29: called with an id that is not in the store, get_user_detail returns
\* None, update_user, add_login_record and add_trusted_device return False
\* and compare_with_current returns the error result with no anomalies, and
\* the object and the data file stay as they were
C29_UnknownUserIsAResult ==
    [][(/\ db_call'.op \in {"get_user_detail", "update_user",
                            "add_login_record", "add_trusted_device",
                            "compare_with_current"}
        /\ str(db_call'.user_id) \notin DOMAIN user_db.users) =>
          /\ user_db' = user_db
          /\ db_file' = db_file
          /\ db_call'.op = "get_user_detail" => db_call'.ret = None
          /\ db_call'.op \in {"update_user", "add_login_record",
                              "add_trusted_device"} => db_call'.ret = FALSE
          /\ db_call'.op = "compare_with_current" =>
                db_call'.ret = [error |-> "User not found", anomalies |-> <<>>]
      ]_vars

\* add_login_record was refused for an id that is not in the store while the
\* store held another user with a trusted device and a login on record
C29_Witness ==
    /\ db_call.op = "add_login_record"
    /\ db_call.ret = FALSE
    /\ str(db_call.user_id) \notin DOMAIN user_db.users
    /\ \E u \in DOMAIN user_db.users :
          /\ user_db.trusted_devices[u] # <<>>
          /\ user_db.historical_logins[u] # <<>>

\* what a successful call has stamped: its time and its reason or score
Stamped ==
    LET metadata == transaction'.metadata IN
    /\ call'.op = "complete" =>
          "completed_at" \in DOMAIN metadata /\ metadata["completed_at"] = now'
    /\ call'.op = "fail" =>
          /\ {"failed_at", "failure_reason"} \subseteq DOMAIN metadata
          /\ metadata["failed_at"] = now'
          /\ metadata["failure_reason"] = call'.reason
    /\ call'.op = "block" =>
          /\ {"blocked_at", "block_reason"} \subseteq DOMAIN metadata
          /\ metadata["blocked_at"] = now'
          /\ metadata["block_reason"] = call'.reason
    /\ call'.op = "flag_for_review" =>
          /\ {"flagged_at", "risk_score"} \subseteq DOMAIN metadata
          /\ metadata["flagged_at"] = now'
          /\ metadata["risk_score"] = call'.score
          /\ transaction'.risk_score = call'.score

\* C30 as claimed: every successful transition stamps the metadata with its
\* time and its reason or score, and the entries stamped by the earlier
\* transitions remain as they were stamped
C30_Original ==
    [][call'.ret =>
          /\ Stamped
          /\ \A k \in DOMAIN transaction.metadata :
                /\ k \in DOMAIN transaction'.metadata
                /\ transaction'.metadata[k] = transaction.metadata[k]]_vars

\* C30 as amended: every successful transition stamps the metadata with its
\* time and its reason or score; the keys stamped earlier remain present
\* and keep their values, except that a fail() after an earlier fail()
\* replaces failed_at and failure_reason
C30_StampsKeepLatestOfEachKind ==
    [][call'.ret =>
          /\ Stamped
          /\ \A k \in DOMAIN transaction.metadata :
                /\ k \in DOMAIN transaction'.metadata
                /\ transaction'.metadata[k] # transaction.metadata[k] =>
                      /\ call'.op = "fail"
                      /\ k \in {"failed_at", "failure_reason"}]_vars

\* a transaction flagged for review and failed later holds both stamps
C30_Witness ==
    /\ call.op = "fail"
    /\ call.ret
    /\ DOMAIN transaction.metadata =
           {"flagged_at", "risk_score", "failed_at", "failure_reason"}
    /\ transaction.metadata["flagged_at"] < transaction.metadata["failed_at"]
    /\ transaction.metadata["failure_reason"] = call.reason

\* ---- detect_threat and run_security_scan together (checked under
\* ---- SpecScanConc)

\* C31: when a detect_threat call and a run_security_scan call that ran
\* concurrently have both returned, response_plan is the plan string of the
\* threat_level the object ends with
C31_ConcurrentPlanMatchesLevel ==
    AllDone => defense_system.response_plan = PlanOf(defense_system.threat_level)

\* ---- detect_threat, one call at a time (checked under SpecPds)

\* C32: every detect_threat call that detects a threat appends exactly one
\* record to active_threats and exactly one alert with status "new" to
\* security_alerts; the threat_level stored in that alert is the level after
\* the call and the response_plan returned is the plan of that level.
C32_OneRecordAndOneAlertPerThreat ==
    [][pds_call'.op = "detect_threat" /\ pds_call'.ret.threat_detected
         => LET threats == defense_system'.active_threats
                alerts == defense_system'.security_alerts
            IN  /\ Len(threats) = Len(defense_system.active_threats) + 1
                /\ SubSeq(threats, 1, Len(threats) - 1)
                      = defense_system.active_threats
                /\ Len(alerts) = Len(defense_system.security_alerts) + 1
                /\ SubSeq(alerts, 1, Len(alerts) - 1)
                      = defense_system.security_alerts
                /\ alerts[Len(alerts)].status = "new"
                /\ alerts[Len(alerts)].threat_level
                      = defense_system'.threat_level
                /\ pds_call'.ret.response_plan
                      = PlanOf(defense_system'.threat_level)]_vars

\* a flagged transaction raised the level from Low to Medium; its alert is the
\* second of the log, after the alert of a block_access call
C32_Witness ==
    /\ pds_call.op = "detect_threat"
    /\ pds_call.ret.threat_detected
    /\ pds_call.ret.threat_details.type = "unusual_transaction"
    /\ Len(defense_system.security_alerts) = 2
    /\ defense_system.security_alerts[1].status = "resolved"
    /\ defense_system.security_alerts[2].status = "new"
    /\ defense_system.security_alerts[2].threat_level = THREAT_LEVEL_MEDIUM
    /\ Len(defense_system.active_threats) = 1
    /\ pds_call.ret.response_plan = PLAN_MEDIUM

\* C33: every detect_threat call on an event with login_attempts > 5 reports
\* a threat whose recorded tag (type) is brute_force_attempt, whatever the
\* event's transaction and ip_address are.
C33_BruteForceTag ==
    [][(/\ pds_call'.op = "detect_threat"
        /\ "login_attempts" \in DOMAIN pds_call'.activity_data
        /\ pds_call'.activity_data["login_attempts"] > 5)
         => LET threats == defense_system'.active_threats IN
            /\ pds_call'.ret.threat_detected
            /\ pds_call'.ret.threat_details.type = "brute_force_attempt"
            /\ Len(threats) > 0
            /\ threats[Len(threats)].details.type = "brute_force_attempt"]_vars

\* ---- the two logs of the defense system (checked under SpecPds; the same
\* ---- formula also holds under SpecPdsConc, SpecScanConc and SpecBlockConc)

\* the keys of a complete threat record and of a complete alert
CompleteThreat(rec) == DOMAIN rec = {"timestamp", "details", "activity_data"}

CompleteAlert(rec) ==
    \/ DOMAIN rec = {"timestamp", "threat_level", "details", "status"}
    \/ DOMAIN rec = {"timestamp", "action", "details", "status"}

C35_ScanRaisesToHighOnFindings ==
    [][pds_call'.op = "run_security_scan"
         => LET r == pds_call'.ret
                findings == r.vulnerabilities_found > 2
                                \/ r.suspicious_patterns > 1
            IN  /\ findings
                     => /\ defense_system'.threat_level = THREAT_LEVEL_HIGH
                        /\ defense_system'.response_plan = PLAN_HIGH
                /\ ~findings
                     => /\ defense_system'.threat_level
                              = defense_system.threat_level
                        /\ defense_system'.response_plan
                              = defense_system.response_plan
                /\ defense_system'.blocked_ips = defense_system.blocked_ips
                /\ defense_system'.active_threats
                      = defense_system.active_threats
                /\ defense_system'.security_alerts
                      = defense_system.security_alerts]_vars

\* a scan that found two suspicious patterns and no vulnerability has set
\* level and plan to High on a system with a blocked address and two alerts
C35_Witness ==
    /\ pds_call.op = "run_security_scan"
    /\ pds_call.ret.vulnerabilities_found = 0
    /\ pds_call.ret.suspicious_patterns = 2
    /\ defense_system.threat_level = THREAT_LEVEL_HIGH
    /\ defense_system.response_plan = PLAN_HIGH
    /\ Len(defense_system.blocked_ips) = 1
    /\ Len(defense_system.security_alerts) = 2

\* C36: a detect_threat call in which no rule fires (login_attempts absent or
\* <= 5, no transaction over 10000 flagged, ip_address absent or not on the
\* block-list) returns threat_detected = False with empty threat details and
\* leaves threat_level, response_plan, active_threats, security_alerts and
\* blocked_ips unchanged.
C36_QuietCallChangesNothing ==
    [][(/\ pds_call'.op = "detect_threat"
        /\ FiredFloors(pds_call'.activity_data, pds_call'.flagged,
                       defense_system.blocked_ips) = {})
         => /\ pds_call'.ret.threat_detected = FALSE
            /\ pds_call'.ret.threat_details = EmptyDict
            /\ defense_system'.threat_level = defense_system.threat_level
            /\ defense_system'.response_plan = defense_system.response_plan
            /\ defense_system'.active_threats = defense_system.active_threats
            /\ defense_system'.security_alerts
                  = defense_system.security_alerts
            /\ defense_system'.blocked_ips = defense_system.blocked_ips]_vars

\* a call with 5 login attempts and a transaction of exactly 10000 has found
\* nothing on a system at level Critical with a blocked address
C36_Witness ==
    /\ pds_call.op = "detect_threat"
    /\ ~pds_call.ret.threat_detected
    /\ "login_attempts" \in DOMAIN pds_call.activity_data
    /\ pds_call.activity_data["login_attempts"] = 5
    /\ "transaction" \in DOMAIN pds_call.activity_data
    /\ pds_call.activity_data["transaction"].amount = 10000
    /\ defense_system.blocked_ips # <<>>
    /\ defense_system.threat_level = THREAT_LEVEL_CRITICAL
    /\ defense_system.response_plan = PLAN_CRITICAL

\* ---- the balances kept in the data file (C37 checked under SpecTransfer,
\* ---- C38 under SpecTransferConc)

RECURSIVE SumOver(_, _)
SumOver(ids, users) ==
    IF ids = {} THEN 0
    ELSE LET id == CHOOSE x \in ids : TRUE
         IN  users[id] + SumOver(ids \ {id}, users)

\* the sum of all stored balances
TotalBalance(users) == SumOver(DOMAIN users, users)

\* the invocation in slot f was a transfer and has returned True
Completed(f) ==
    /\ flows[f].kind = "transfer"
    /\ flows[f].pc = "done"
    /\ flows[f].result = "True"

\* C37: a transfer that has completed has lowered the sender's stored balance
\* by the amount and raised the receiver's by the same amount, the sum of all
\* stored balances is what it was before the transfer, and a transfer from a
\* user to the same user has left that user's balance as it was.
C37_TransfersConserveMoney ==
    Completed(1)
        => LET s == flows[1].sender_id
               r == flows[1].receiver_id
               amount == flows[1].transaction.amount
               before == flows[1].file0
           IN  /\ TotalBalance(data_file) = TotalBalance(before)
               /\ s # r => /\ data_file[s] = before[s] - amount
                           /\ data_file[r] = before[r] + amount
               /\ s = r => data_file[s] = before[s]

\* C38: when two transfers from the same sender (to other users) ran
\* concurrently and both have completed, the sender's stored balance is the
\* balance before the two minus both amounts, and it is not negative.
C38_NoLostUpdate ==
    \A f \in Flows, g \in Flows :
        (/\ f # g
         /\ Completed(f) /\ Completed(g)
         /\ flows[f].concurrent /\ ~flows[g].concurrent
         /\ flows[f].sender_id = flows[g].sender_id
         /\ flows[f].receiver_id # flows[f].sender_id
         /\ flows[g].receiver_id # flows[g].sender_id)
          => LET s == flows[g].sender_id IN
             /\ data_file[s] = flows[g].file0[s] - flows[g].transaction.amount
                                   - flows[f].transaction.amount
             /\ data_file[s] >= 0

\* ---- predict_risk_level on inputs that agree on the weighted scores
\* ---- (checked under SpecAi)

\* the inputs that have the same weighted factors as vr with the same scores:
\* any pass/fail bits, and any entry or none under the name "voice"
Agreeing(vr) ==
    LET known == DOMAIN vr \cap DOMAIN WEIGHTS IN
    {[f \in known \cup other |->
          IF f \in known THEN <<bits[f], vr[f][2]>> ELSE entry] :
        bits \in [known -> BOOLEAN],
        other \in SUBSET (FactorNames \ DOMAIN WEIGHTS),
        entry \in BOOLEAN \X Scores}

ChargedUnusualHour(auth) == InList("Unusual login time", auth.risk_factors)

====
